---- MODULE Spec2Model ----
(***************************************************************************)
(* A model of the rollup's prover engine (plasma/server/prover/prover.rs)  *)
(* and of its operation codec (core/lib/models/src/node/operations.rs).    *)
(*                                                                         *)
(* The prover owns a balance tree and a block_number cursor.  One call of  *)
(* apply_and_prove is one action: it runs the whole handler, every early   *)
(* return included, on a block and on the outcome of the Groth16 library   *)
(* (proof creation and local verification), which is an input.             *)
(***************************************************************************)
EXTENDS Integers, Sequences, FiniteSets, TLC

VARIABLES
    accounts_tree,   \* Prover.accounts_tree: the items of the balance tree
    block_number,    \* Prover.block_number: the cursor
    last_call,       \* the last apply_and_prove call: its input, the state before it, its result
    calls,           \* the number of apply_and_prove calls made so far
    worker,          \* run: "running", "panicked" (an expect failed) or "exited" (channel closed)
    received,        \* run: the ProverRequests taken from the input channel, in order
    published,       \* run: the CommitRequest::NewProof messages sent, in order
    codec,           \* the last codec call: its input and its result
    startup,         \* BabyProver::create: what it was given and how it ended
    rx_for_blocks,   \* run: the ProverRequests sent to the input channel and not yet taken
    tx_for_blocks    \* the block producer's Sender of the input channel: "held" or "dropped"

vars ==
    <<accounts_tree, block_number, last_call, calls, worker, received, published, codec,
      startup, rx_for_blocks, tx_for_blocks>>

(***************************************************************************)
(* Bounds of the model.                                                    *)
(***************************************************************************)
\* Account ids the blocks may name: 0 .. NumAccounts - 1.
NumAccounts == 3
\* The number of apply_and_prove calls in one behaviour.
MaxCalls == 2
\* The field Fr, scaled down: balances, nonces and fees are integers modulo FrModulus.
FrModulus == 31
\* u128, scaled down: parse_float_to_u128 overflows above this value.
MaxU128 == 99

(***************************************************************************)
(* Program constants.                                                      *)
(***************************************************************************)
\* params::BALANCE_TREE_DEPTH, scaled down: the tree has 2^BALANCE_TREE_DEPTH slots.
BALANCE_TREE_DEPTH == 2
TRANSFER_BATCH_SIZE == 1
DEPOSIT_BATCH_SIZE == 2
EXIT_BATCH_SIZE == 1

Ids == 0 .. (NumAccounts - 1)

RECURSIVE Pow(_, _)
Pow(b, e) == IF e = 0 THEN 1 ELSE b * Pow(b, e - 1)

Slots == 0 .. (Pow(2, BALANCE_TREE_DEPTH) - 1)

(***************************************************************************)
(* Field arithmetic: Fr::add_assign, Fr::sub_assign.                       *)
(***************************************************************************)
FrAdd(a, b) == (a + b) % FrModulus
FrSub(a, b) == (a - b + FrModulus) % FrModulus

(***************************************************************************)
(* Account leaves.  tree.items is a map: a slot with some = FALSE has no   *)
(* entry in it.  Account::default() has the four scalars zero.             *)
(***************************************************************************)
NoLeaf == [some |-> FALSE, balance |-> 0, nonce |-> 0, pub_x |-> 0, pub_y |-> 0]
AccountDefault == [some |-> TRUE, balance |-> 0, nonce |-> 0, pub_x |-> 0, pub_y |-> 0]

\* The four scalars of a leaf: what the tree hashes and what a LeafWitness holds.
LeafScalars(leaf) ==
    [balance |-> leaf.balance, nonce |-> leaf.nonce, pub_x |-> leaf.pub_x, pub_y |-> leaf.pub_y]

(***************************************************************************)
(* The balance tree: a sparse Merkle tree.  The hash is modelled as an     *)
(* injective pairing, so two roots are equal exactly when every slot holds *)
(* the same four scalars; a slot with no entry hashes as the default leaf. *)
(***************************************************************************)
LeafHash(leaf) == <<leaf.balance, leaf.nonce, leaf.pub_x, leaf.pub_y>>

RECURSIVE SubtreeHash(_, _, _)
SubtreeHash(items, level, index) ==
    IF level = 0
    THEN LeafHash(items[index])
    ELSE <<SubtreeHash(items, level - 1, 2 * index),
           SubtreeHash(items, level - 1, 2 * index + 1)>>

root_hash(items) == SubtreeHash(items, BALANCE_TREE_DEPTH, 0)

\* The sibling of a node index: the index with its lowest bit flipped.
Sibling(index) == IF index % 2 = 0 THEN index + 1 ELSE index - 1

\* The sibling hashes from the leaf upward to just below the root.
merkle_path(items, id) ==
    [l \in 1 .. BALANCE_TREE_DEPTH |->
        SubtreeHash(items, l - 1, Sibling(id \div Pow(2, l - 1)))]

insert(items, id, leaf) == [items EXCEPT ![id] = leaf]

\* The root a path and a leaf recompute (the circuit's check of a witness).
RECURSIVE MerkleFold(_, _, _, _)
MerkleFold(h, index, path, level) ==
    IF level > Len(path)
    THEN h
    ELSE MerkleFold(IF index % 2 = 0 THEN <<h, path[level]>> ELSE <<path[level], h>>,
                    index \div 2, path, level + 1)

verify_merkle(path, leaf, id) == MerkleFold(LeafHash(leaf), id, path, 1)

(***************************************************************************)
(* Packed amounts and fees.  A transaction carries an amount as a float    *)
(* encoding (exponent, mantissa); parse_float_to_u128 returns              *)
(* mantissa * 10^exponent, or an error when that overflows u128.           *)
(***************************************************************************)
parse_float_to_u128(enc) ==
    LET v == enc.mant * Pow(10, enc.exp)
    IN  IF v > MaxU128 THEN [ok |-> FALSE, value |-> 0] ELSE [ok |-> TRUE, value |-> v]

\* Fr::from_str of a parsed u128.
FrFromU128(v) == v % FrModulus

(***************************************************************************)
(* edwards::Point::from_xy: Some exactly for the points of the curve.  The *)
(* pair (0, 0) of a default leaf is not on a twisted Edwards curve.        *)
(***************************************************************************)
CurvePoints == {<<1, 2>>, <<3, 4>>}
from_xy(x, y) == <<x, y>> \in CurvePoints

(***************************************************************************)
(* Public data and its commitment.  SHA-256 is modelled as an injective    *)
(* function of its input, a digest being the record of what was hashed;    *)
(* the first byte of a digest, the one the prover masks, is a function of  *)
(* the input that stands for the byte SHA-256 would give.                  *)
(***************************************************************************)
\* encoder::encode_transactions: the block's transactions, in order.
encode_transactions(block) == block.transactions

\* ExitRequest::public_data_into_bits of one exit: the account and the amount of the request.
exit_public_data(request) == <<[from |-> request.from, amount |-> request.amount]>>

\* A field element as 256 bits, most significant first, packed into 32 bytes
\* (the values of the model are below 2^16).
be_bytes_256(v) ==
    [i \in 1 .. 32 |-> IF i = 32 THEN v % 256 ELSE IF i = 31 THEN (v \div 256) % 256 ELSE 0]

\* public_data_initial_bits as bytes: every element of the first round, in order.
RECURSIVE bytes_to_hash(_)
bytes_to_hash(first_round) ==
    IF first_round = <<>>
    THEN <<>>
    ELSE be_bytes_256(Head(first_round)) \o bytes_to_hash(Tail(first_round))

\* Sha256 of an input.
Sha256(input) == [sha256 |-> input]

\* The sum of a sequence of bytes.
RECURSIVE SumBytes(_)
SumBytes(bytes) == IF bytes = <<>> THEN 0 ELSE Head(bytes) + SumBytes(Tail(bytes))

\* The first byte of the second digest.
hash_result_first_byte(h1_input, public_data) ==
    (37 * SumBytes(h1_input) + 101 * Len(public_data) + 11) % 256

\* A clip that leaves the byte as it is.
clip_to_field_none(byte) == byte

\* hash_result[0] &= 0x1f.
clip_to_field(byte) == byte % 32

\* Two rounds: H1 over the block number (and the total fees, for a transfer
\* block), H2 over H1 followed by the public data, its first byte masked with 0x1f.
public_data_commitment(first_round, public_data) ==
    LET h1_input == bytes_to_hash(first_round)
        h2_input == <<Sha256(h1_input)>> \o public_data
    IN  [digest |-> Sha256(h2_input),
         first_byte |-> clip_to_field(hash_result_first_byte(h1_input, public_data))]

(***************************************************************************)
(* The result of one apply_and_prove call: the status it returned          *)
(* ("Ok" or the error), the engine state it left, and on success the       *)
(* FullBabyProof.  witnesses are the (request, witness) pairs the call     *)
(* built; oracle is the Groth16 outcome when the call got as far as asking *)
(* for it ("unused" otherwise).                                            *)
(***************************************************************************)
NoProof == [inputs |-> <<>>, total_fees |-> 0, block_number |-> 0, public_data |-> <<>>]

Failure(status, tree, bn, witnesses) ==
    [status |-> status, tree |-> tree, block_number |-> bn, proof |-> NoProof,
     witnesses |-> witnesses, oracle |-> "unused"]

\* The outcomes of create_random_proof and verify_proof.
Oracles == {"ok", "create_err", "verify_err", "verify_false"}

\* A guard that refuses only the blocks behind the cursor.
incorrect_block_behind(block, bn) == block.block_number < bn

\* The sequence guard of the three handlers: block_number != self.block_number.
incorrect_block(block, bn) == block.block_number # bn

\* A size check that refuses only the batches above the size.
wrong_batch_size_above(num_txes, batch_size) == num_txes > batch_size

\* The size check of the three handlers: num_txes != self.*_batch_size.
wrong_batch_size(num_txes, batch_size) == num_txes # batch_size

\* A check of the declared root that never fails.
root_mismatch_ignored(block_final_root, final_root) == FALSE

\* block_final_root != final_root.
root_mismatch(block_final_root, final_root) == block_final_root # final_root

\* A check of the batch's effect that never fails.
root_unchanged_ignored(initial_root, final_root) == FALSE

\* initial_root == final_root: the batch left the root as it was.
root_unchanged(initial_root, final_root) == initial_root = final_root

\* A cursor that moves by two.
bump_block_number_twice(bn) == bn + 2

\* self.block_number += 1.
bump_block_number(bn) == bn + 1

\* The public inputs of the proof, as handed to verify_proof and kept in FullBabyProof.
proof_inputs(initial_root, final_root, commitment) == <<initial_root, final_root, commitment>>

\* The common end of the three handlers: the two root checks, the cursor
\* increment, the commitment, proof creation and local verification.
ProveTail(tree, bn, block, initial_root, first_round, total_fees, public_data, witnesses, oracle) ==
    LET final_root == root_hash(tree)
        commitment == public_data_commitment(first_round, public_data)
        bumped     == bump_block_number(bn)
        failed(status) ==
            [status |-> status, tree |-> tree, block_number |-> bumped, proof |-> NoProof,
             witnesses |-> witnesses, oracle |-> oracle]
    IN  IF root_unchanged(initial_root, final_root)
        THEN Failure("initial_root == final_root", tree, bn, witnesses)
        ELSE IF root_mismatch(block.new_root_hash, final_root)
        THEN Failure("block_final_root != final_root", tree, bn, witnesses)
        ELSE IF oracle = "create_err" THEN failed("proof.is_err()")
        ELSE IF oracle = "verify_err" THEN failed("Proof verification failed")
        ELSE IF oracle = "verify_false" THEN failed("Proof is invalid")
        ELSE [status |-> "Ok", tree |-> tree, block_number |-> bumped,
              proof |-> [inputs |-> proof_inputs(initial_root, final_root, commitment),
                         total_fees |-> total_fees,
                         block_number |-> block.block_number,
                         public_data |-> public_data],
              witnesses |-> witnesses, oracle |-> oracle]

\* The state of a handler's loop over the transactions.
LoopStart(tree) ==
    [err |-> "none", tree |-> tree, total_fees |-> 0, witnesses |-> <<>>,
     public_data |-> <<>>]

\* A fee total that keeps only the fee of the last transaction.
add_fee_last(total_fees, fee) == fee

\* total_fees.add_assign(&fee_as_field_element).
add_fee(total_fees, fee) == FrAdd(total_fees, fee)

\* A sender check that lets every sender pass.
sender_is_none_never(sender_leaf) == FALSE

\* sender_leaf.is_none(): the sender has no leaf in the tree.
sender_is_none(sender_leaf) == ~sender_leaf.some

(***************************************************************************)
(* A transfer step that takes the recipient's path after the sender's      *)
(* leaf is inserted.                                                       *)
(***************************************************************************)
TransferStepLatePath(acc, tx) ==
    LET items          == acc.tree
        sender_leaf    == items[tx.from]
        recipient_leaf == IF items[tx.to].some THEN items[tx.to] ELSE AccountDefault
        parsed_amount  == parse_float_to_u128(tx.amount)
        parsed_fee     == parse_float_to_u128(tx.fee)
        amount         == FrFromU128(parsed_amount.value)
        fee            == FrFromU128(parsed_fee.value)
        path_from      == merkle_path(items, tx.from)
        updated_sender ==
            [sender_leaf EXCEPT !.balance = FrSub(FrSub(sender_leaf.balance, amount), fee),
                                !.nonce = FrAdd(sender_leaf.nonce, 1)]
        path_to        == merkle_path(insert(items, tx.from, updated_sender), tx.to)
        updated_recipient ==
            IF tx.to # 0
            THEN [recipient_leaf EXCEPT !.balance = FrAdd(recipient_leaf.balance, amount)]
            ELSE recipient_leaf
        witness ==
            [request |-> tx,
             auth_path_from |-> path_from, leaf_from |-> LeafScalars(sender_leaf),
             auth_path_to |-> path_to, leaf_to |-> LeafScalars(recipient_leaf)]
    IN  IF ~tx.convertible THEN [acc EXCEPT !.err = "InvalidTransaction"]
        ELSE IF sender_is_none(sender_leaf) THEN [acc EXCEPT !.err = "InvalidSender"]
        ELSE IF ~parsed_amount.ok \/ ~parsed_fee.ok
        THEN [acc EXCEPT !.err = "InvalidAmountEncoding"]
        ELSE [acc EXCEPT
                !.tree = insert(insert(items, tx.from, updated_sender), tx.to, updated_recipient),
                !.total_fees = add_fee(acc.total_fees, fee),
                !.witnesses = Append(acc.witnesses, witness)]

(***************************************************************************)
(* apply_and_prove_transfer, one transaction of its loop.                  *)
(***************************************************************************)
TransferStep(acc, tx) ==
    LET items          == acc.tree
        sender_leaf    == items[tx.from]
        recipient_leaf == IF items[tx.to].some THEN items[tx.to] ELSE AccountDefault
        parsed_amount  == parse_float_to_u128(tx.amount)
        parsed_fee     == parse_float_to_u128(tx.fee)
        amount         == FrFromU128(parsed_amount.value)
        fee            == FrFromU128(parsed_fee.value)
        path_from      == merkle_path(items, tx.from)
        path_to        == merkle_path(items, tx.to)
        updated_sender ==
            [sender_leaf EXCEPT !.balance = FrSub(FrSub(sender_leaf.balance, amount), fee),
                                !.nonce = FrAdd(sender_leaf.nonce, 1)]
        updated_recipient ==
            IF tx.to # 0
            THEN [recipient_leaf EXCEPT !.balance = FrAdd(recipient_leaf.balance, amount)]
            ELSE recipient_leaf
        witness ==
            [request |-> tx,
             auth_path_from |-> path_from, leaf_from |-> LeafScalars(sender_leaf),
             auth_path_to |-> path_to, leaf_to |-> LeafScalars(recipient_leaf)]
    IN  IF ~tx.convertible THEN [acc EXCEPT !.err = "InvalidTransaction"]
        ELSE IF sender_is_none(sender_leaf) THEN [acc EXCEPT !.err = "InvalidSender"]
        ELSE IF ~parsed_amount.ok \/ ~parsed_fee.ok
        THEN [acc EXCEPT !.err = "InvalidAmountEncoding"]
        ELSE [acc EXCEPT
                !.tree = insert(insert(items, tx.from, updated_sender), tx.to, updated_recipient),
                !.total_fees = add_fee(acc.total_fees, fee),
                !.witnesses = Append(acc.witnesses, witness)]

\* The loop: the transactions in order, stopping at the first that fails.
RECURSIVE TransferLoop(_, _, _)
TransferLoop(acc, txs, i) ==
    IF i > Len(txs) \/ acc.err # "none"
    THEN acc
    ELSE TransferLoop(TransferStep(acc, txs[i]), txs, i + 1)

\* apply_and_prove_transfer of an engine whose transfer_batch_size field holds
\* the given size; the block's declared total_fees is not read.
apply_and_prove_transfer_sized(transfer_batch_size, tree, bn, block, oracle) ==
    IF incorrect_block(block, bn)
    THEN Failure("incorrect block", tree, bn, <<>>)
    ELSE IF wrong_batch_size(Len(block.transactions), transfer_batch_size)
    THEN Failure("num_txes != self.transfer_batch_size", tree, bn, <<>>)
    ELSE LET acc == TransferLoop(LoopStart(tree), block.transactions, 1)
         IN  IF acc.err # "none"
             THEN Failure(acc.err, acc.tree, bn, acc.witnesses)
             ELSE ProveTail(acc.tree, bn, block, root_hash(tree),
                            <<block.block_number, acc.total_fees>>, acc.total_fees,
                            encode_transactions(block), acc.witnesses, oracle)

\* The engine create returns: transfer_batch_size is TRANSFER_BATCH_SIZE.
apply_and_prove_transfer(tree, bn, block, oracle) ==
    apply_and_prove_transfer_sized(TRANSFER_BATCH_SIZE, tree, bn, block, oracle)

(***************************************************************************)
(* apply_and_prove_deposit, one transaction of its loop.                   *)
(***************************************************************************)
\* A deposit that writes its public key into every leaf, occupied or not.
deposit_new_leaf_rekeyed(existing_leaf, tx) ==
    IF ~existing_leaf.some
    THEN [AccountDefault EXCEPT !.balance = tx.amount, !.pub_x = tx.pub_x, !.pub_y = tx.pub_y]
    ELSE [existing_leaf EXCEPT !.balance = FrAdd(existing_leaf.balance, tx.amount),
                               !.pub_x = tx.pub_x, !.pub_y = tx.pub_y]

\* The leaf a deposit writes: a default leaf with the deposit's amount and key
\* when the account has no leaf, the old leaf with the amount added otherwise.
deposit_new_leaf(existing_leaf, tx) ==
    IF ~existing_leaf.some
    THEN [AccountDefault EXCEPT !.balance = tx.amount, !.pub_x = tx.pub_x, !.pub_y = tx.pub_y]
    ELSE [existing_leaf EXCEPT !.balance = FrAdd(existing_leaf.balance, tx.amount)]

DepositStep(acc, tx) ==
    LET items         == acc.tree
        existing_leaf == items[tx.into]
        leaf_is_empty == ~existing_leaf.some
        old_leaf      == IF leaf_is_empty THEN AccountDefault ELSE existing_leaf
        new_leaf      == deposit_new_leaf(existing_leaf, tx)
        path          == merkle_path(items, tx.into)
        witness       ==
            [request |-> [into |-> tx.into, amount |-> tx.amount,
                          public_key |-> <<new_leaf.pub_x, new_leaf.pub_y>>],
             auth_path |-> path, leaf |-> LeafScalars(old_leaf),
             leaf_is_empty |-> leaf_is_empty,
             new_pub_x |-> new_leaf.pub_x, new_pub_y |-> new_leaf.pub_y]
    IN  IF ~tx.convertible THEN [acc EXCEPT !.err = "InvalidTransaction"]
        ELSE IF ~from_xy(new_leaf.pub_x, new_leaf.pub_y)
        THEN [acc EXCEPT !.err = "public_key.is_none()"]
        ELSE [acc EXCEPT
                !.tree = insert(items, tx.into, new_leaf),
                !.witnesses = Append(acc.witnesses, witness)]

RECURSIVE DepositLoop(_, _, _)
DepositLoop(acc, txs, i) ==
    IF i > Len(txs) \/ acc.err # "none"
    THEN acc
    ELSE DepositLoop(DepositStep(acc, txs[i]), txs, i + 1)

apply_and_prove_deposit(tree, bn, block, oracle) ==
    IF incorrect_block(block, bn)
    THEN Failure("block_number != self.block_number", tree, bn, <<>>)
    ELSE IF wrong_batch_size(Len(block.transactions), DEPOSIT_BATCH_SIZE)
    THEN Failure("num_txes != self.deposit_batch_size", tree, bn, <<>>)
    ELSE LET acc == DepositLoop(LoopStart(tree), block.transactions, 1)
         IN  IF acc.err # "none"
             THEN Failure(acc.err, acc.tree, bn, acc.witnesses)
             ELSE ProveTail(acc.tree, bn, block, root_hash(tree),
                            <<block.block_number>>, 0,
                            encode_transactions(block), acc.witnesses, oracle)

(***************************************************************************)
(* apply_and_prove_exit, one transaction of its loop.  The size check      *)
(* reads deposit_batch_size.                                               *)
(***************************************************************************)
\* An exit that lets every account pass, with a leaf or without.
exit_leaf_is_none_never(existing_leaf) == FALSE

\* existing_leaf.is_none(): the exiting account has no leaf in the tree.
exit_leaf_is_none(existing_leaf) == ~existing_leaf.some

\* An exit request that carries the amount of the caller's transaction.
exit_request_declared(tx, old_leaf) == [from |-> tx.account, amount |-> tx.amount]

\* ExitRequest { from, amount: Some(old_leaf.balance) }: the amount is the
\* balance found in the tree.
exit_request(tx, old_leaf) == [from |-> tx.account, amount |-> old_leaf.balance]

ExitStep(acc, tx) ==
    LET items         == acc.tree
        existing_leaf == items[tx.account]
        path          == merkle_path(items, tx.account)
        request       == exit_request(tx, existing_leaf)
        witness       == [request |-> request, auth_path |-> path,
                          leaf |-> LeafScalars(existing_leaf)]
    IN  IF ~tx.convertible THEN [acc EXCEPT !.err = "InvalidTransaction"]
        ELSE IF exit_leaf_is_none(existing_leaf)
        THEN [acc EXCEPT !.err = "existing_leaf.is_none()"]
        ELSE [acc EXCEPT
                !.tree = insert(items, tx.account, AccountDefault),
                !.public_data = acc.public_data \o exit_public_data(request),
                !.witnesses = Append(acc.witnesses, witness)]

RECURSIVE ExitLoop(_, _, _)
ExitLoop(acc, txs, i) ==
    IF i > Len(txs) \/ acc.err # "none"
    THEN acc
    ELSE ExitLoop(ExitStep(acc, txs[i]), txs, i + 1)

\* A size check of the exit handler that reads exit_batch_size.
exit_wrong_batch_size_own(num_txes) == wrong_batch_size(num_txes, EXIT_BATCH_SIZE)

\* The size check of the exit handler: num_txes != self.deposit_batch_size.
exit_wrong_batch_size(num_txes) == wrong_batch_size(num_txes, DEPOSIT_BATCH_SIZE)

apply_and_prove_exit(tree, bn, block, oracle) ==
    IF incorrect_block(block, bn)
    THEN Failure("block_number != self.block_number", tree, bn, <<>>)
    ELSE IF exit_wrong_batch_size(Len(block.transactions))
    THEN Failure("num_txes != self.deposit_batch_size", tree, bn, <<>>)
    ELSE LET acc == ExitLoop(LoopStart(tree), block.transactions, 1)
         IN  IF acc.err # "none"
             THEN Failure(acc.err, acc.tree, bn, acc.witnesses)
             ELSE ProveTail(acc.tree, bn, block, root_hash(tree),
                            <<block.block_number>>, 0,
                            acc.public_data, acc.witnesses, oracle)

\* apply_and_prove: the dispatch on the block's data.
apply_and_prove(tree, bn, block, oracle) ==
    CASE block.kind = "Deposit"  -> apply_and_prove_deposit(tree, bn, block, oracle)
      [] block.kind = "Exit"     -> apply_and_prove_exit(tree, bn, block, oracle)
      [] block.kind = "Transfer" -> apply_and_prove_transfer(tree, bn, block, oracle)

(***************************************************************************)
(* The inputs: the blocks a caller may hand to apply_and_prove.            *)
(***************************************************************************)
\* Float encodings of amounts (0, 3 and 10^2, which overflows) and of fees (0 and 1).
AmountEncodings == {[exp |-> 0, mant |-> 0], [exp |-> 0, mant |-> 3], [exp |-> 2, mant |-> 1]}
FeeEncodings == {[exp |-> 0, mant |-> 0], [exp |-> 0, mant |-> 1]}

\* One transaction of each kind that the conversion to circuit form (try_from) rejects.
TransferTxs ==
    {[from |-> f, to |-> t, amount |-> a, fee |-> e, convertible |-> TRUE] :
        f \in Ids, t \in Ids, a \in AmountEncodings, e \in FeeEncodings}
    \cup {[from |-> 1, to |-> 1, amount |-> [exp |-> 0, mant |-> 3],
           fee |-> [exp |-> 0, mant |-> 0], convertible |-> FALSE]}

\* Deposits carry a public key: (3, 4) is a curve point, (5, 5) is not.
DepositPayloads ==
    {[amount |-> 2, key |-> <<3, 4>>], [amount |-> 2, key |-> <<5, 5>>],
     [amount |-> 0, key |-> <<3, 4>>]}
DepositTxs ==
    {[into |-> i, amount |-> p.amount, pub_x |-> p.key[1], pub_y |-> p.key[2],
      convertible |-> TRUE] : i \in Ids, p \in DepositPayloads}
    \cup {[into |-> 1, amount |-> 2, pub_x |-> 3, pub_y |-> 4, convertible |-> FALSE]}

\* An exit names an account and carries an amount of the caller's.
ExitAmounts == {7}
ExitTxs ==
    {[account |-> i, amount |-> a, convertible |-> TRUE] : i \in Ids, a \in ExitAmounts}
    \cup {[account |-> 1, amount |-> 7, convertible |-> FALSE]}

\* Batches of one transaction repeated: one shorter than the expected size, of that
\* size, and one longer.
SampleBatches(t, size) == {[i \in 1 .. n |-> t] : n \in {size - 1, size, size + 1}}

SampleTransfer ==
    [from |-> 1, to |-> 2, amount |-> [exp |-> 0, mant |-> 3],
     fee |-> [exp |-> 0, mant |-> 1], convertible |-> TRUE]
SampleDeposit == [into |-> 2, amount |-> 2, pub_x |-> 3, pub_y |-> 4, convertible |-> TRUE]
SampleExit == [account |-> 1, amount |-> 7, convertible |-> TRUE]

TransferSamples == SampleBatches(SampleTransfer, TRANSFER_BATCH_SIZE)
DepositSamples == SampleBatches(SampleDeposit, DEPOSIT_BATCH_SIZE)
ExitSamples == SampleBatches(SampleExit, DEPOSIT_BATCH_SIZE)

\* Every batch of the expected size, and the sample batches.
Batches(Txs, size, samples) == [1 .. size -> Txs] \cup samples

\* The tree a handler's loop leaves, were it run on these transactions.
TreeAfter(tree, kind, txs) ==
    CASE kind = "Transfer" -> TransferLoop(LoopStart(tree), txs, 1).tree
      [] kind = "Deposit"  -> DepositLoop(LoopStart(tree), txs, 1).tree
      [] kind = "Exit"     -> ExitLoop(LoopStart(tree), txs, 1).tree

\* The roots a block declares: the root its transactions lead to, or the root before them.
DeclaredRoots(tree, kind, txs) == {root_hash(TreeAfter(tree, kind, txs)), root_hash(tree)}

\* The block numbers a block carries: the cursor or, for a sample batch, also the
\* number after it.
BlockNumbers(bn, txs, samples) == IF txs \in samples THEN {bn, bn + 1} ELSE {bn}

TransferBatches == Batches(TransferTxs, TRANSFER_BATCH_SIZE, TransferSamples)
DepositBatches == Batches(DepositTxs, DEPOSIT_BATCH_SIZE, DepositSamples)
ExitBatches == Batches(ExitTxs, DEPOSIT_BATCH_SIZE, ExitSamples)

Block(kind, n, r, txs) ==
    [kind |-> kind, block_number |-> n, new_root_hash |-> r, transactions |-> txs]

(***************************************************************************)
(* The engine after BabyProver::create: the tree holds the persisted       *)
(* accounts and the cursor is the last verified block + 1.                 *)
(***************************************************************************)
\* create: block_number is the last verified block + 1.
InitialCursor == 1

PersistedAccounts ==
    [s \in Slots |->
        IF s = 1
        THEN [some |-> TRUE, balance |-> 5, nonce |-> 0, pub_x |-> 1, pub_y |-> 2]
        ELSE NoLeaf]

NoBlock == [kind |-> "none", block_number |-> 0, new_root_hash |-> <<>>, transactions |-> <<>>]

NoCall ==
    [block |-> NoBlock, pre_tree |-> PersistedAccounts, pre_block_number |-> 0,
     result |-> Failure("none", PersistedAccounts, 0, <<>>)]

Init ==
    /\ accounts_tree = PersistedAccounts
    /\ block_number = InitialCursor
    /\ last_call = NoCall
    /\ calls = 0
    /\ worker = "running"
    /\ received = <<>>
    /\ published = <<>>
    /\ codec = [op |-> "none"]
    /\ startup = [status |-> "Ok"]
    /\ rx_for_blocks = <<>>
    /\ tx_for_blocks = "held"

(***************************************************************************)
(* One call of apply_and_prove on the engine.  The Groth16 outcome is an   *)
(* input of the calls that get as far as proving.                          *)
(***************************************************************************)
OraclesFor(tree, bn, block) ==
    IF apply_and_prove(tree, bn, block, "ok").status = "Ok" THEN Oracles ELSE {"ok"}

Call(block, oracle) ==
    LET r == apply_and_prove(accounts_tree, block_number, block, oracle)
    IN  /\ accounts_tree' = r.tree
        /\ block_number' = r.block_number
        /\ last_call' = [block |-> block, pre_tree |-> accounts_tree,
                         pre_block_number |-> block_number, result |-> r]
        /\ calls' = calls + 1
        /\ UNCHANGED <<worker, received, published, codec, startup, rx_for_blocks, tx_for_blocks>>

\* A call on any block of one kind.
CallOfKind(kind, batches, samples) ==
    /\ calls < MaxCalls
    /\ \E txs \in batches :
         \E n \in BlockNumbers(block_number, txs, samples) :
            \E r \in DeclaredRoots(accounts_tree, kind, txs) :
               \E oracle \in OraclesFor(accounts_tree, block_number, Block(kind, n, r, txs)) :
                  Call(Block(kind, n, r, txs), oracle)

ApplyAndProveTransfer == CallOfKind("Transfer", TransferBatches, TransferSamples)

ApplyAndProveDeposit == CallOfKind("Deposit", DepositBatches, DepositSamples)

ApplyAndProveExit == CallOfKind("Exit", ExitBatches, ExitSamples)

Next == ApplyAndProveTransfer \/ ApplyAndProveDeposit \/ ApplyAndProveExit

Spec == Init /\ [][Next]_vars

(***************************************************************************)
(* One call on an engine configured with a transfer batch of LongBatchSize *)
(* transactions, so that the loop of apply_and_prove_transfer runs more    *)
(* than once; the block carries the total fees its producer declared.      *)
(***************************************************************************)
LongBatchSize == 2

\* Fees of 0, 1 and 2.
LongFeeEncodings == FeeEncodings \cup {[exp |-> 0, mant |-> 2]}

\* Transfers from account 1, the account the engine starts with.
LongTransferTxs ==
    {[from |-> 1, to |-> t, amount |-> [exp |-> 0, mant |-> a], fee |-> e,
      convertible |-> TRUE] : t \in {0, 2}, a \in {0, 1}, e \in LongFeeEncodings}

LongTransferBatches == [1 .. LongBatchSize -> LongTransferTxs]

\* The total fees a block declares (BlockData::Transfer { total_fees, .. }).
DeclaredFees == {0, 3}

DeclaredFeesBlock(n, r, txs, total_fees) ==
    [kind |-> "Transfer", block_number |-> n, new_root_hash |-> r, transactions |-> txs,
     total_fees |-> total_fees]

ApplyAndProveLongTransfer ==
    /\ calls = 0
    /\ \E txs \in LongTransferBatches :
         \E r \in DeclaredRoots(accounts_tree, "Transfer", txs) :
            \E total_fees \in DeclaredFees :
               \E oracle \in Oracles :
                  LET block == DeclaredFeesBlock(block_number, r, txs, total_fees)
                      res   == apply_and_prove_transfer_sized(LongBatchSize, accounts_tree,
                                                              block_number, block, oracle)
                  IN  /\ accounts_tree' = res.tree
                      /\ block_number' = res.block_number
                      /\ last_call' = [block |-> block, pre_tree |-> accounts_tree,
                                       pre_block_number |-> block_number, result |-> res]
                      /\ calls' = calls + 1
                      /\ UNCHANGED <<worker, received, published, codec, startup, rx_for_blocks, tx_for_blocks>>

\* One deposit or exit call on the same engine.
ApplyAndProveOneDeposit == calls = 0 /\ ApplyAndProveDeposit

ApplyAndProveOneExit == calls = 0 /\ ApplyAndProveExit

BatchNext == ApplyAndProveLongTransfer \/ ApplyAndProveOneDeposit \/ ApplyAndProveOneExit

BatchSpec == Init /\ [][BatchNext]_vars


(***************************************************************************)
(* The worker: run takes ProverRequest(block_number, block) messages from  *)
(* its input channel.  One iteration of its loop is one action: it loads   *)
(* the state diff from the store, writes it into the tree, calls           *)
(* apply_and_prove and sends NewProof; each of these steps is followed by  *)
(* expect, so a failure ends the worker.  The request, the store's answer, *)
(* the Groth16 outcome and the state of the output channel are inputs.     *)
(***************************************************************************)
\* extend_accounts: every (id, account) pair is inserted over the tree.
RECURSIVE extend_accounts(_, _, _)
extend_accounts(tree, accounts, i) ==
    IF i > Len(accounts)
    THEN tree
    ELSE extend_accounts(insert(tree, accounts[i].id, accounts[i].account), accounts, i + 1)

\* The answers of load_state_diff: an error, no update, or one account's snapshot.
StateDiffs ==
    {[ok |-> FALSE, accounts |-> <<>>],
     [ok |-> TRUE, accounts |-> <<>>],
     [ok |-> TRUE,
      accounts |-> <<[id |-> 2,
                      account |-> [some |-> TRUE, balance |-> 4, nonce |-> 0,
                                   pub_x |-> 3, pub_y |-> 4]]>>]}

\* The numbers a request carries beside its block.
RequestNumbers == 1 .. MaxCalls

\* The batches the requests carry: one of each kind.
WorkerBatches ==
    {<<"Transfer", [i \in 1 .. TRANSFER_BATCH_SIZE |-> SampleTransfer]>>,
     <<"Deposit", [i \in 1 .. DEPOSIT_BATCH_SIZE |-> SampleDeposit]>>,
     <<"Exit", [i \in 1 .. DEPOSIT_BATCH_SIZE |-> SampleExit]>>}

\* A NewProof that carries the number of the block in place of the request's.
NewProof_numbered_by_block(n, block) == [block_number |-> block.block_number, block |-> block]

\* CommitRequest::NewProof(block_number, block, proof).
NewProof(n, block) == [block_number |-> n, block |-> block]

\* A worker that goes on after a failure.
after_expect_ignored(ok) == "running"

\* expect on the results of apply_and_prove and of send: a failure panics and ends run.
after_expect(ok) == IF ok THEN "running" ELSE "panicked"

\* The body of the for loop of run, on the request it has taken.
ProveAndSend(n, block, diff, oracle, send_ok) ==
    LET forwarded == extend_accounts(accounts_tree, diff.accounts, 1)
        r         == apply_and_prove(forwarded, block_number, block, oracle)
    IN  /\ calls' = calls + 1
        /\ UNCHANGED <<codec, startup, tx_for_blocks>>
        /\ IF ~diff.ok
           THEN /\ worker' = "panicked"
                /\ UNCHANGED <<accounts_tree, block_number, last_call, published>>
           ELSE /\ accounts_tree' = r.tree
                /\ block_number' = r.block_number
                /\ last_call' = [block |-> block, pre_tree |-> forwarded,
                                 pre_block_number |-> block_number, result |-> r,
                                 diff |-> diff.accounts]
                /\ published' = IF r.status = "Ok" /\ send_ok
                                THEN Append(published, NewProof(n, block))
                                ELSE published
                /\ worker' = after_expect(r.status = "Ok" /\ send_ok)

\* One iteration of the for loop: the request is taken and the body runs on it.
RunIteration(n, block, diff, oracle, send_ok) ==
    /\ received' = Append(received, [block_number |-> n, block |-> block])
    /\ ProveAndSend(n, block, diff, oracle, send_ok)

RunStep ==
    /\ worker = "running"
    /\ calls < MaxCalls
    /\ \E n \in RequestNumbers, b \in WorkerBatches, diff \in StateDiffs :
         LET forwarded == extend_accounts(accounts_tree, diff.accounts, 1)
         IN  \E bn \in {block_number, block_number + 1} :
               \E root \in DeclaredRoots(forwarded, b[1], b[2]) :
                 \E oracle \in OraclesFor(forwarded, block_number, Block(b[1], bn, root, b[2])) :
                   \E send_ok \in BOOLEAN :
                     /\ RunIteration(n, Block(b[1], bn, root, b[2]), diff, oracle, send_ok)
                     /\ UNCHANGED rx_for_blocks

\* The input channel is closed and empty: the for loop ends and run returns.
ChannelClosed ==
    /\ worker = "running"
    /\ worker' = "exited"
    /\ rx_for_blocks = <<>>
    /\ tx_for_blocks = "held"
    /\ tx_for_blocks' = "dropped"
    /\ UNCHANGED <<accounts_tree, block_number, last_call, calls, received, published, codec,
                   startup, rx_for_blocks>>

WorkerNext == RunStep \/ ChannelClosed

WorkerSpec == Init /\ [][WorkerNext]_vars

(***************************************************************************)
(* The worker with its input channel: the block producer sends requests,   *)
(* run takes them in order.  The worker thread blocks on the channel and   *)
(* goes on as soon as a request is there: its iteration is weakly fair.    *)
(***************************************************************************)
\* rx_for_blocks.send(ProverRequest(n, block)) by the producer: a block built on
\* the engine's present state or on the state after it.
SendRequest ==
    /\ worker \in {"running", "proving"}
    /\ tx_for_blocks = "held"
    /\ Len(received) + Len(rx_for_blocks) < MaxCalls
    /\ \E n \in RequestNumbers, b \in WorkerBatches :
         \E bn \in {block_number, block_number + 1} :
            \E root \in DeclaredRoots(accounts_tree, b[1], b[2]) :
               rx_for_blocks' =
                   Append(rx_for_blocks,
                          [block_number |-> n, block |-> Block(b[1], bn, root, b[2])])
    /\ UNCHANGED <<accounts_tree, block_number, last_call, calls, worker, received,
                   published, codec, startup, tx_for_blocks>>

\* One iteration of the for loop of run, on the request at the head of the channel.
RunTake ==
    /\ worker = "running"
    /\ rx_for_blocks # <<>>
    /\ rx_for_blocks' = Tail(rx_for_blocks)
    /\ \E diff \in StateDiffs : \E oracle \in Oracles : \E send_ok \in BOOLEAN :
         RunIteration(Head(rx_for_blocks).block_number, Head(rx_for_blocks).block,
                      diff, oracle, send_ok)

ChannelNext == SendRequest \/ RunTake \/ ChannelClosed

ChannelSpec == Init /\ [][ChannelNext]_vars /\ WF_vars(RunTake)

(***************************************************************************)
(* The worker while the block producer goes away.  Dropping the Sender     *)
(* closes the input channel: the for loop still yields the requests that   *)
(* are in it and ends when it is empty.  The producer runs beside the      *)
(* worker, so the iteration is two steps here: the request is taken        *)
(* (worker = "proving") and then the body of the loop runs on it.          *)
(***************************************************************************)
\* The producer drops tx_for_blocks.
DropSender ==
    /\ tx_for_blocks = "held"
    /\ worker \in {"running", "proving"}
    /\ tx_for_blocks' = "dropped"
    /\ UNCHANGED <<accounts_tree, block_number, last_call, calls, worker, received,
                   published, codec, startup, rx_for_blocks>>

\* The for loop takes the request at the head of the channel.
TakeRequest ==
    /\ worker = "running"
    /\ rx_for_blocks # <<>>
    /\ worker' = "proving"
    /\ received' = Append(received, Head(rx_for_blocks))
    /\ rx_for_blocks' = Tail(rx_for_blocks)
    /\ UNCHANGED <<accounts_tree, block_number, last_call, calls, published, codec,
                   startup, tx_for_blocks>>

\* The body of the loop on the request taken last.
FinishRequest ==
    /\ worker = "proving"
    /\ UNCHANGED <<received, rx_for_blocks>>
    /\ \E diff \in StateDiffs : \E oracle \in Oracles : \E send_ok \in BOOLEAN :
         ProveAndSend(received[Len(received)].block_number,
                      received[Len(received)].block, diff, oracle, send_ok)

\* The channel is closed and empty: the iterator ends and run returns.
RunReturns ==
    /\ worker = "running"
    /\ rx_for_blocks = <<>>
    /\ tx_for_blocks = "dropped"
    /\ worker' = "exited"
    /\ UNCHANGED <<accounts_tree, block_number, last_call, calls, received, published, codec,
                   startup, rx_for_blocks, tx_for_blocks>>

CancelNext == SendRequest \/ DropSender \/ TakeRequest \/ FinishRequest \/ RunReturns

CancelSpec ==
    Init /\ [][CancelNext]_vars
         /\ WF_vars(TakeRequest) /\ WF_vars(FinishRequest) /\ WF_vars(RunReturns)


(***************************************************************************)
(* BabyProver::create.  The store connection, the verified state it loads, *)
(* the three key files and the root the loaded state reports are inputs.   *)
(***************************************************************************)
\* The last verified blocks the store is given.
MaxLastBlock == 1

\* AccountTree::new: no leaf is set.
EmptyTree == [s \in Slots |-> NoLeaf]

\* PlasmaState::new(accounts, last_block + 1).block_number.
state_block_number(last_block) == last_block + 1

\* The result of a create that does not return an engine: Err(message) is
\* returned, or the expect on load_verified_state panics.
NoEngine(status, message) ==
    [status |-> status, message |-> message, block_number |-> 0, accounts_tree |-> EmptyTree]

create(connection_ok, load, keys, supplied_root) ==
    IF ~connection_ok THEN NoEngine("Err", "No connection to database")
    ELSE IF ~load.ok THEN NoEngine("panic", "db must be functional")
    ELSE IF ~keys.transfer THEN NoEngine("Err", "IoError: keys/transfer_pk.key")
    ELSE IF ~keys.deposit THEN NoEngine("Err", "IoError: keys/deposit_pk.key")
    ELSE IF ~keys.exit THEN NoEngine("Err", "IoError: keys/exit_pk.key")
    ELSE LET tree == extend_accounts(EmptyTree, load.accounts, 1)
             root == root_hash(tree)
         IN  IF root # supplied_root THEN NoEngine("Err", "root did not change")
             ELSE [status |-> "Ok", message |-> "",
                   block_number |-> state_block_number(load.last_block),
                   accounts_tree |-> tree]

\* The accounts the store holds: a map, so no id twice.
StoredAccount(id, balance) ==
    [id |-> id,
     account |-> [some |-> TRUE, balance |-> balance, nonce |-> 0, pub_x |-> 1, pub_y |-> 2]]

StoredAccountLists ==
    {<<>>, <<StoredAccount(1, 5)>>, <<StoredAccount(2, 4)>>,
     <<StoredAccount(1, 5), StoredAccount(2, 4)>>}

\* The answers of load_verified_state.
VerifiedStates ==
    {[ok |-> FALSE, last_block |-> 0, accounts |-> <<>>]}
        \cup {[ok |-> TRUE, last_block |-> n, accounts |-> a] :
                n \in 0 .. MaxLastBlock, a \in StoredAccountLists}

KeyFiles == [transfer : BOOLEAN, deposit : BOOLEAN, exit : BOOLEAN]

\* The roots the loaded state reports: the root of its accounts, or the root of
\* another set of accounts.
SuppliedRoots(load) ==
    {root_hash(extend_accounts(EmptyTree, load.accounts, 1)),
     root_hash(extend_accounts(EmptyTree, <<StoredAccount(3, 1)>>, 1))}

\* Before create: no engine.
CreateInit ==
    /\ accounts_tree = EmptyTree
    /\ block_number = 0
    /\ last_call = NoCall
    /\ calls = 0
    /\ worker = "running"
    /\ received = <<>>
    /\ published = <<>>
    /\ codec = [op |-> "none"]
    /\ startup = [status |-> "none"]
    /\ rx_for_blocks = <<>>
    /\ tx_for_blocks = "held"

\* BabyProver::create: the engine is the one it returns, if it returns one.
Create ==
    /\ startup.status = "none"
    /\ \E connection_ok \in BOOLEAN : \E load \in VerifiedStates : \E keys \in KeyFiles :
         \E supplied_root \in SuppliedRoots(load) :
            LET r == create(connection_ok, load, keys, supplied_root)
            IN  /\ accounts_tree' = r.accounts_tree
                /\ block_number' = r.block_number
                /\ startup' = [status |-> r.status, message |-> r.message,
                               connection_ok |-> connection_ok,
                               load |-> load, keys |-> keys,
                               supplied_root |-> supplied_root]
                /\ UNCHANGED <<last_call, calls, worker, received, published, codec,
                               rx_for_blocks, tx_for_blocks>>

CreateSpec == CreateInit /\ [][Create]_vars



(***************************************************************************)
(* The operation codec (node/operations.rs).  Public data is a sequence of *)
(* bytes; the widths are those of params, in bits.                         *)
(***************************************************************************)
CHUNK_BYTES == 9
ACCOUNT_ID_BIT_WIDTH == 32
TOKEN_BIT_WIDTH == 16
BALANCE_BIT_WIDTH == 128
NONCE_BIT_WIDTH == 32
ETH_ADDRESS_BIT_WIDTH == 160
ADDRESS_WIDTH == 160
NEW_PUBKEY_HASH_WIDTH == 160
FR_ADDRESS_LEN == 20
AMOUNT_EXPONENT_BIT_WIDTH == 5
AMOUNT_MANTISSA_BIT_WIDTH == 35
FEE_EXPONENT_BIT_WIDTH == 5
FEE_MANTISSA_BIT_WIDTH == 11

\* The values of the model are below 2^ValueBits.
ValueBits == 31

\* to_be_bytes of an unsigned integer of w bytes.
RECURSIVE to_be_bytes(_, _)
to_be_bytes(v, w) ==
    IF w = 0 THEN <<>> ELSE Append(to_be_bytes(v \div 256, w - 1), v % 256)

\* bytes_slice_to_uint*: the big-endian value of a slice.
RECURSIVE from_be_bytes(_)
from_be_bytes(bytes) ==
    IF bytes = <<>> THEN 0
    ELSE from_be_bytes(SubSeq(bytes, 1, Len(bytes) - 1)) * 256 + bytes[Len(bytes)]

\* bytes_slice_to_uint16/32/128: None unless the slice has the width of the type.
bytes_slice_to_uint(bytes, w) ==
    [ok |-> Len(bytes) = w, value |-> IF Len(bytes) = w THEN from_be_bytes(bytes) ELSE 0]

\* &bytes[from..to] of Rust: offsets from 0, the end excluded.
Slice(bytes, from, to) == SubSeq(bytes, from + 1, to)

\* Vec::resize(n, 0x00): cut to n bytes, or filled with zeros up to n.
resize(data, n) == [i \in 1 .. n |-> IF i <= Len(data) THEN data[i] ELSE 0]

\* A mantissa fits its field.
FitsMantissa(mant, bits) == bits >= ValueBits \/ mant < Pow(2, bits)

\* The float packing: the mantissa is divided by ten until it fits its field.
RECURSIVE PackFloat(_, _, _)
PackFloat(mant, exp, mant_bits) ==
    IF FitsMantissa(mant, mant_bits) THEN [mant |-> mant, exp |-> exp]
    ELSE PackFloat(mant \div 10, exp + 1, mant_bits)

\* The packed bytes: the mantissa above the exponent, big-endian.
PackedBytes(value, exp_bits, mant_bits) ==
    LET f == PackFloat(value, 0, mant_bits)
    IN  to_be_bytes(f.mant * Pow(2, exp_bits) + f.exp, (exp_bits + mant_bits) \div 8)

pack_token_amount(amount) ==
    PackedBytes(amount, AMOUNT_EXPONENT_BIT_WIDTH, AMOUNT_MANTISSA_BIT_WIDTH)

pack_fee_amount(fee) == PackedBytes(fee, FEE_EXPONENT_BIT_WIDTH, FEE_MANTISSA_BIT_WIDTH)

\* The unpacking: None unless the slice has the width of the packed float.
UnpackBytes(bytes, exp_bits, mant_bits) ==
    IF Len(bytes) # (exp_bits + mant_bits) \div 8 THEN [ok |-> FALSE, value |-> 0]
    ELSE LET v == from_be_bytes(bytes)
         IN  [ok |-> TRUE,
              value |-> (v \div Pow(2, exp_bits)) * Pow(10, v % Pow(2, exp_bits))]

unpack_token_amount(bytes) ==
    UnpackBytes(bytes, AMOUNT_EXPONENT_BIT_WIDTH, AMOUNT_MANTISSA_BIT_WIDTH)

unpack_fee_amount(bytes) ==
    UnpackBytes(bytes, FEE_EXPONENT_BIT_WIDTH, FEE_MANTISSA_BIT_WIDTH)

\* An address, or a public key hash, of twenty equal bytes.
Address(b) == [i \in 1 .. FR_ADDRESS_LEN |-> b]

AddressZero == Address(0)

\* The result of a decoder that fails.
DecodeError(reason) == [ok |-> FALSE, reason |-> reason]

NoopOp_CHUNKS == 1
NoopOp_OP_CODE == 0
DepositOp_CHUNKS == 6
DepositOp_OP_CODE == 1
TransferToNewOp_CHUNKS == 6
TransferToNewOp_OP_CODE == 2
WithdrawOp_CHUNKS == 6
WithdrawOp_OP_CODE == 3
CloseOp_CHUNKS == 1
CloseOp_OP_CODE == 4
TransferOp_CHUNKS == 2
TransferOp_OP_CODE == 5
FullExitOp_CHUNKS == 6
FullExitOp_OP_CODE == 6
ChangePubKeyOp_CHUNKS == 6
ChangePubKeyOp_OP_CODE == 7
ForcedExitOp_CHUNKS == 6
ForcedExitOp_OP_CODE == 8

\* DepositOp::get_public_data, before the resize.
DepositOp_fields(op) ==
    <<DepositOp_OP_CODE>>
        \o to_be_bytes(op.account_id, 4)
        \o to_be_bytes(op.priority_op.token, 2)
        \o to_be_bytes(op.priority_op.amount, 16)
        \o op.priority_op.to

DepositOp_get_public_data(op) == resize(DepositOp_fields(op), DepositOp_CHUNKS * CHUNK_BYTES)

DepositOp_from_public_data(bytes) ==
    IF Len(bytes) # DepositOp_CHUNKS * CHUNK_BYTES
    THEN DecodeError("Wrong bytes length for deposit pubdata")
    ELSE
    LET account_id_offset == 1
        token_id_offset == account_id_offset + ACCOUNT_ID_BIT_WIDTH \div 8
        amount_offset == token_id_offset + TOKEN_BIT_WIDTH \div 8
        account_address_offset == amount_offset + BALANCE_BIT_WIDTH \div 8
        account_id == bytes_slice_to_uint(Slice(bytes, account_id_offset, token_id_offset), 4)
        token == bytes_slice_to_uint(Slice(bytes, token_id_offset, amount_offset), 2)
        amount == bytes_slice_to_uint(Slice(bytes, amount_offset, account_address_offset), 16)
        to == Slice(bytes, account_address_offset, account_address_offset + FR_ADDRESS_LEN)
    IN  IF ~account_id.ok THEN DecodeError("Cant get account id from deposit pubdata")
        ELSE IF ~token.ok THEN DecodeError("Cant get token id from deposit pubdata")
        ELSE IF ~amount.ok THEN DecodeError("Cant get amount from deposit pubdata")
        ELSE [ok |-> TRUE,
              op |-> [kind |-> "Deposit",
                      priority_op |-> [from |-> AddressZero, token |-> token.value,
                                       amount |-> amount.value, to |-> to],
                      account_id |-> account_id.value]]

NoopOp_fields(op) == <<>>

NoopOp_get_public_data(op) == resize(NoopOp_fields(op), NoopOp_CHUNKS * CHUNK_BYTES)

\* A noop decoder that checks the length alone, as the other decoders do.
NoopOp_from_public_data_length_only(bytes) ==
    IF Len(bytes) # NoopOp_CHUNKS * CHUNK_BYTES
    THEN DecodeError("Wrong pubdata for noop operation")
    ELSE [ok |-> TRUE, op |-> [kind |-> "Noop"]]

NoopOp_from_public_data(bytes) ==
    IF bytes # [i \in 1 .. CHUNK_BYTES |-> 0]
    THEN DecodeError("Wrong pubdata for noop operation")
    ELSE [ok |-> TRUE, op |-> [kind |-> "Noop"]]

\* TransferToNewOp::get_public_data, before the resize.
TransferToNewOp_fields(op) ==
    <<TransferToNewOp_OP_CODE>>
        \o to_be_bytes(op.from, 4)
        \o to_be_bytes(op.tx.token, 2)
        \o pack_token_amount(op.tx.amount)
        \o op.tx.to
        \o to_be_bytes(op.to, 4)
        \o pack_fee_amount(op.tx.fee)

TransferToNewOp_get_public_data(op) ==
    resize(TransferToNewOp_fields(op), TransferToNewOp_CHUNKS * CHUNK_BYTES)

\* Transfer::new of a decoder: the fields pubdata does not carry are defaults.
Transfer_new(account_id, from, to, token, amount, fee, nonce) ==
    [account_id |-> account_id, from |-> from, to |-> to, token |-> token,
     amount |-> amount, fee |-> fee, nonce |-> nonce, signature |-> "default"]

TransferToNewOp_from_public_data(bytes) ==
    IF Len(bytes) # TransferToNewOp_CHUNKS * CHUNK_BYTES
    THEN DecodeError("Wrong bytes length for transfer to new pubdata")
    ELSE
    LET from_offset == 1
        token_id_offset == from_offset + ACCOUNT_ID_BIT_WIDTH \div 8
        amount_offset == token_id_offset + TOKEN_BIT_WIDTH \div 8
        to_address_offset ==
            amount_offset + (AMOUNT_EXPONENT_BIT_WIDTH + AMOUNT_MANTISSA_BIT_WIDTH) \div 8
        to_id_offset == to_address_offset + FR_ADDRESS_LEN
        fee_offset == to_id_offset + ACCOUNT_ID_BIT_WIDTH \div 8
        from_id == bytes_slice_to_uint(Slice(bytes, from_offset, token_id_offset), 4)
        to_id == bytes_slice_to_uint(Slice(bytes, to_id_offset, fee_offset), 4)
        to == Slice(bytes, to_address_offset, to_id_offset)
        token == bytes_slice_to_uint(Slice(bytes, token_id_offset, amount_offset), 2)
        amount == unpack_token_amount(Slice(bytes, amount_offset, to_address_offset))
        fee == unpack_fee_amount(Slice(bytes, fee_offset,
                   fee_offset + (FEE_EXPONENT_BIT_WIDTH + FEE_MANTISSA_BIT_WIDTH) \div 8))
    IN  IF ~from_id.ok
        THEN DecodeError("Cant get from account id from transfer to new pubdata")
        ELSE IF ~to_id.ok
        THEN DecodeError("Cant get to account id from transfer to new pubdata")
        ELSE IF ~token.ok THEN DecodeError("Cant get token id from transfer to new pubdata")
        ELSE IF ~amount.ok THEN DecodeError("Cant get amount from transfer to new pubdata")
        ELSE IF ~fee.ok THEN DecodeError("Cant get fee from transfer to new pubdata")
        ELSE [ok |-> TRUE,
              op |-> [kind |-> "TransferToNew",
                      tx |-> Transfer_new(from_id.value, AddressZero, to, token.value,
                                          amount.value, fee.value, 0),
                      from |-> from_id.value, to |-> to_id.value]]

\* A transfer encoding that writes the amount raw, as a deposit does.
TransferOp_fields_raw_amount(op) ==
    <<TransferOp_OP_CODE>>
        \o to_be_bytes(op.from, 4)
        \o to_be_bytes(op.tx.token, 2)
        \o to_be_bytes(op.to, 4)
        \o to_be_bytes(op.tx.amount, 16)
        \o pack_fee_amount(op.tx.fee)

\* TransferOp::get_public_data, before the resize.
TransferOp_fields(op) ==
    <<TransferOp_OP_CODE>>
        \o to_be_bytes(op.from, 4)
        \o to_be_bytes(op.tx.token, 2)
        \o to_be_bytes(op.to, 4)
        \o pack_token_amount(op.tx.amount)
        \o pack_fee_amount(op.tx.fee)

TransferOp_get_public_data(op) == resize(TransferOp_fields(op), TransferOp_CHUNKS * CHUNK_BYTES)

TransferOp_from_public_data(bytes) ==
    IF Len(bytes) # TransferOp_CHUNKS * CHUNK_BYTES
    THEN DecodeError("Wrong bytes length for transfer pubdata")
    ELSE
    LET from_offset == 1
        token_id_offset == from_offset + ACCOUNT_ID_BIT_WIDTH \div 8
        to_offset == token_id_offset + TOKEN_BIT_WIDTH \div 8
        amount_offset == to_offset + ACCOUNT_ID_BIT_WIDTH \div 8
        fee_offset ==
            amount_offset + (AMOUNT_EXPONENT_BIT_WIDTH + AMOUNT_MANTISSA_BIT_WIDTH) \div 8
        token == bytes_slice_to_uint(Slice(bytes, token_id_offset, to_offset), 2)
        amount == unpack_token_amount(Slice(bytes, amount_offset, fee_offset))
        fee == unpack_fee_amount(Slice(bytes, fee_offset,
                   fee_offset + (FEE_EXPONENT_BIT_WIDTH + FEE_MANTISSA_BIT_WIDTH) \div 8))
        from_id == bytes_slice_to_uint(Slice(bytes, from_offset, token_id_offset), 4)
        to_id == bytes_slice_to_uint(Slice(bytes, to_offset, amount_offset), 4)
    IN  IF ~token.ok THEN DecodeError("Cant get token id from transfer pubdata")
        ELSE IF ~amount.ok THEN DecodeError("Cant get amount from transfer pubdata")
        ELSE IF ~fee.ok THEN DecodeError("Cant get fee from transfer pubdata")
        ELSE IF ~from_id.ok THEN DecodeError("Cant get from account id from transfer pubdata")
        ELSE IF ~to_id.ok THEN DecodeError("Cant get to account id from transfer pubdata")
        ELSE [ok |-> TRUE,
              op |-> [kind |-> "Transfer",
                      tx |-> Transfer_new(from_id.value, AddressZero, AddressZero,
                                          token.value, amount.value, fee.value, 0),
                      from |-> from_id.value, to |-> to_id.value]]

\* WithdrawOp::get_public_data, before the resize.
WithdrawOp_fields(op) ==
    <<WithdrawOp_OP_CODE>>
        \o to_be_bytes(op.account_id, 4)
        \o to_be_bytes(op.tx.token, 2)
        \o to_be_bytes(op.tx.amount, 16)
        \o pack_fee_amount(op.tx.fee)
        \o op.tx.to

WithdrawOp_get_public_data(op) == resize(WithdrawOp_fields(op), WithdrawOp_CHUNKS * CHUNK_BYTES)

WithdrawOp_from_public_data(bytes) ==
    IF Len(bytes) # WithdrawOp_CHUNKS * CHUNK_BYTES
    THEN DecodeError("Wrong bytes length for withdraw pubdata")
    ELSE
    LET account_offset == 1
        token_id_offset == account_offset + ACCOUNT_ID_BIT_WIDTH \div 8
        amount_offset == token_id_offset + TOKEN_BIT_WIDTH \div 8
        fee_offset == amount_offset + BALANCE_BIT_WIDTH \div 8
        eth_address_offset ==
            fee_offset + (FEE_EXPONENT_BIT_WIDTH + FEE_MANTISSA_BIT_WIDTH) \div 8
        account_id == bytes_slice_to_uint(Slice(bytes, account_offset, token_id_offset), 4)
        token == bytes_slice_to_uint(Slice(bytes, token_id_offset, amount_offset), 2)
        to == Slice(bytes, eth_address_offset, eth_address_offset + ETH_ADDRESS_BIT_WIDTH \div 8)
        amount == bytes_slice_to_uint(Slice(bytes, amount_offset, fee_offset), 16)
        fee == unpack_fee_amount(Slice(bytes, fee_offset, eth_address_offset))
    IN  IF ~account_id.ok THEN DecodeError("Cant get account id from withdraw pubdata")
        ELSE IF ~token.ok THEN DecodeError("Cant get token id from withdraw pubdata")
        ELSE IF ~amount.ok THEN DecodeError("Cant get amount from withdraw pubdata")
        ELSE IF ~fee.ok THEN DecodeError("Cant get fee from withdraw pubdata")
        ELSE [ok |-> TRUE,
              op |-> [kind |-> "Withdraw",
                      tx |-> [account_id |-> account_id.value, from |-> AddressZero,
                              to |-> to, token |-> token.value, amount |-> amount.value,
                              fee |-> fee.value, nonce |-> 0, signature |-> "default"],
                      account_id |-> account_id.value]]

\* An amount that is one when there is no withdrawn amount.
ForcedExitOp_amount_marked(op) == IF op.withdraw_amount.some THEN op.withdraw_amount.value ELSE 1

\* ForcedExitOp::amount: the withdrawn amount, zero when there is none.
ForcedExitOp_amount(op) == IF op.withdraw_amount.some THEN op.withdraw_amount.value ELSE 0

\* ForcedExitOp::get_public_data, before the resize.
ForcedExitOp_fields(op) ==
    <<ForcedExitOp_OP_CODE>>
        \o to_be_bytes(op.tx.initiator_account_id, 4)
        \o to_be_bytes(op.target_account_id, 4)
        \o to_be_bytes(op.tx.token, 2)
        \o to_be_bytes(ForcedExitOp_amount(op), 16)
        \o pack_fee_amount(op.tx.fee)
        \o op.tx.target

ForcedExitOp_get_public_data(op) ==
    resize(ForcedExitOp_fields(op), ForcedExitOp_CHUNKS * CHUNK_BYTES)

ForcedExitOp_from_public_data(bytes) ==
    IF Len(bytes) # ForcedExitOp_CHUNKS * CHUNK_BYTES
    THEN DecodeError("Wrong bytes length for forced exit pubdata")
    ELSE
    LET initiator_account_id_offset == 1
        target_account_id_offset == initiator_account_id_offset + ACCOUNT_ID_BIT_WIDTH \div 8
        token_id_offset == target_account_id_offset + ACCOUNT_ID_BIT_WIDTH \div 8
        amount_offset == token_id_offset + TOKEN_BIT_WIDTH \div 8
        fee_offset == amount_offset + BALANCE_BIT_WIDTH \div 8
        eth_address_offset ==
            fee_offset + (FEE_EXPONENT_BIT_WIDTH + FEE_MANTISSA_BIT_WIDTH) \div 8
        eth_address_end == eth_address_offset + ETH_ADDRESS_BIT_WIDTH \div 8
        initiator_account_id ==
            bytes_slice_to_uint(
                Slice(bytes, initiator_account_id_offset, target_account_id_offset), 4)
        target_account_id ==
            bytes_slice_to_uint(Slice(bytes, target_account_id_offset, token_id_offset), 4)
        token == bytes_slice_to_uint(Slice(bytes, token_id_offset, amount_offset), 2)
        amount == bytes_slice_to_uint(Slice(bytes, amount_offset, fee_offset), 16)
        fee == unpack_fee_amount(Slice(bytes, fee_offset, eth_address_offset))
        target == Slice(bytes, eth_address_offset, eth_address_end)
    IN  IF ~initiator_account_id.ok
        THEN DecodeError("Cant get initiator account id from forced exit pubdata")
        ELSE IF ~target_account_id.ok
        THEN DecodeError("Cant get target account id from forced exit pubdata")
        ELSE IF ~token.ok THEN DecodeError("Cant get token id from forced exit pubdata")
        ELSE IF ~amount.ok THEN DecodeError("Cant get amount from forced exit pubdata")
        ELSE IF ~fee.ok THEN DecodeError("Cant get fee from withdraw pubdata")
        ELSE [ok |-> TRUE,
              op |-> [kind |-> "ForcedExit",
                      tx |-> [initiator_account_id |-> initiator_account_id.value,
                              target |-> target, token |-> token.value,
                              fee |-> fee.value, nonce |-> 0, signature |-> "default"],
                      target_account_id |-> target_account_id.value,
                      withdraw_amount |-> [some |-> TRUE, value |-> amount.value]]]

\* CloseOp::get_public_data, before the resize.
CloseOp_fields(op) == <<CloseOp_OP_CODE>> \o to_be_bytes(op.account_id, 4)

CloseOp_get_public_data(op) == resize(CloseOp_fields(op), CloseOp_CHUNKS * CHUNK_BYTES)

CloseOp_from_public_data(bytes) ==
    IF Len(bytes) # CloseOp_CHUNKS * CHUNK_BYTES
    THEN DecodeError("Wrong bytes length for close pubdata")
    ELSE
    LET account_id_offset == 1
        account_id ==
            bytes_slice_to_uint(
                Slice(bytes, account_id_offset, account_id_offset + ACCOUNT_ID_BIT_WIDTH \div 8),
                4)
    IN  IF ~account_id.ok THEN DecodeError("Cant get from account id from close pubdata")
        ELSE [ok |-> TRUE,
              op |-> [kind |-> "Close",
                      tx |-> [account |-> AddressZero, nonce |-> 0, signature |-> "default"],
                      account_id |-> account_id.value]]

\* ChangePubKeyOp::get_public_data, before the resize.
ChangePubKeyOp_fields(op) ==
    <<ChangePubKeyOp_OP_CODE>>
        \o to_be_bytes(op.account_id, 4)
        \o op.tx.new_pk_hash
        \o op.tx.account
        \o to_be_bytes(op.tx.nonce, 4)
        \o to_be_bytes(op.tx.fee_token, 2)
        \o pack_fee_amount(op.tx.fee)

ChangePubKeyOp_get_public_data(op) ==
    resize(ChangePubKeyOp_fields(op), ChangePubKeyOp_CHUNKS * CHUNK_BYTES)

\* The length check of ChangePubKeyOp::from_public_data: bytes.len() >= end.
pubdata_too_short(len, end) == ~(len >= end)

ChangePubKeyOp_from_public_data(bytes) ==
    LET account_id_offset == 1
        pk_hash_offset == account_id_offset + ACCOUNT_ID_BIT_WIDTH \div 8
        account_offset == pk_hash_offset + NEW_PUBKEY_HASH_WIDTH \div 8
        nonce_offset == account_offset + ADDRESS_WIDTH \div 8
        fee_token_offset == nonce_offset + NONCE_BIT_WIDTH \div 8
        fee_offset == fee_token_offset + TOKEN_BIT_WIDTH \div 8
        end == fee_offset + (FEE_EXPONENT_BIT_WIDTH + FEE_MANTISSA_BIT_WIDTH) \div 8
    IN  IF pubdata_too_short(Len(bytes), end)
        THEN DecodeError("Change pubkey offchain, pubdata too short")
        ELSE
        LET account_id == bytes_slice_to_uint(Slice(bytes, account_id_offset, pk_hash_offset), 4)
            new_pk_hash == Slice(bytes, pk_hash_offset, account_offset)
            account == Slice(bytes, account_offset, nonce_offset)
            nonce == bytes_slice_to_uint(Slice(bytes, nonce_offset, fee_token_offset), 4)
            fee_token == bytes_slice_to_uint(Slice(bytes, fee_token_offset, fee_offset), 2)
            fee == unpack_fee_amount(Slice(bytes, fee_offset, end))
        IN  IF ~account_id.ok
            THEN DecodeError("Change pubkey offchain, fail to get account id")
            ELSE IF Len(new_pk_hash) # FR_ADDRESS_LEN
            THEN DecodeError("PubKeyHash::from_bytes")
            ELSE IF ~nonce.ok THEN DecodeError("Change pubkey offchain, fail to get nonce")
            ELSE IF ~fee_token.ok
            THEN DecodeError("Change pubkey offchain, fail to get fee token ID")
            ELSE IF ~fee.ok THEN DecodeError("Change pubkey offchain, fail to get fee")
            ELSE [ok |-> TRUE,
                  op |-> [kind |-> "ChangePubKeyOffchain",
                          tx |-> [account_id |-> account_id.value, account |-> account,
                                  new_pk_hash |-> new_pk_hash, fee_token |-> fee_token.value,
                                  fee |-> fee.value, nonce |-> nonce.value,
                                  signature |-> "none", eth_signature |-> "none"],
                          account_id |-> account_id.value]]

\* withdraw_amount.unwrap_or_default of FullExitOp::get_public_data.
FullExitOp_amount(op) == IF op.withdraw_amount.some THEN op.withdraw_amount.value ELSE 0

\* FullExitOp::get_public_data, before the resize.
FullExitOp_fields(op) ==
    <<FullExitOp_OP_CODE>>
        \o to_be_bytes(op.priority_op.account_id, 4)
        \o op.priority_op.eth_address
        \o to_be_bytes(op.priority_op.token, 2)
        \o to_be_bytes(FullExitOp_amount(op), 16)

FullExitOp_get_public_data(op) == resize(FullExitOp_fields(op), FullExitOp_CHUNKS * CHUNK_BYTES)

FullExitOp_from_public_data(bytes) ==
    IF Len(bytes) # FullExitOp_CHUNKS * CHUNK_BYTES
    THEN DecodeError("Wrong bytes length for full exit pubdata")
    ELSE
    LET account_id_offset == 1
        eth_address_offset == account_id_offset + ACCOUNT_ID_BIT_WIDTH \div 8
        token_offset == eth_address_offset + ETH_ADDRESS_BIT_WIDTH \div 8
        amount_offset == token_offset + TOKEN_BIT_WIDTH \div 8
        account_id == bytes_slice_to_uint(Slice(bytes, account_id_offset, eth_address_offset), 4)
        eth_address == Slice(bytes, eth_address_offset, token_offset)
        token == bytes_slice_to_uint(Slice(bytes, token_offset, amount_offset), 2)
        amount ==
            bytes_slice_to_uint(
                Slice(bytes, amount_offset, amount_offset + BALANCE_BIT_WIDTH \div 8), 16)
    IN  IF ~account_id.ok THEN DecodeError("Cant get account id from full exit pubdata")
        ELSE IF ~token.ok THEN DecodeError("Cant get token id from full exit pubdata")
        ELSE IF ~amount.ok THEN DecodeError("Cant get amount from full exit pubdata")
        ELSE [ok |-> TRUE,
              op |-> [kind |-> "FullExit",
                      priority_op |-> [account_id |-> account_id.value,
                                       eth_address |-> eth_address, token |-> token.value],
                      withdraw_amount |-> [some |-> TRUE, value |-> amount.value]]]

WithdrawOp_WITHDRAW_DATA_PREFIX == <<1>>
ForcedExitOp_WITHDRAW_DATA_PREFIX == <<1>>
FullExitOp_WITHDRAW_DATA_PREFIX == <<0>>

WithdrawOp_get_withdrawal_data(op) ==
    WithdrawOp_WITHDRAW_DATA_PREFIX
        \o op.tx.to
        \o to_be_bytes(op.tx.token, 2)
        \o to_be_bytes(op.tx.amount, 16)

ForcedExitOp_get_withdrawal_data(op) ==
    ForcedExitOp_WITHDRAW_DATA_PREFIX
        \o op.tx.target
        \o to_be_bytes(op.tx.token, 2)
        \o to_be_bytes(ForcedExitOp_amount(op), 16)

\* A full exit that writes the flag of a withdraw.
FullExitOp_get_withdrawal_data_queued(op) ==
    WithdrawOp_WITHDRAW_DATA_PREFIX
        \o op.priority_op.eth_address
        \o to_be_bytes(op.priority_op.token, 2)
        \o to_be_bytes(IF op.withdraw_amount.some THEN op.withdraw_amount.value ELSE 0, 16)

FullExitOp_get_withdrawal_data(op) ==
    FullExitOp_WITHDRAW_DATA_PREFIX
        \o op.priority_op.eth_address
        \o to_be_bytes(op.priority_op.token, 2)
        \o to_be_bytes(IF op.withdraw_amount.some THEN op.withdraw_amount.value ELSE 0, 16)

\* FranklinOp::withdrawal_data.
withdrawal_data(op) ==
    CASE op.kind = "Withdraw" -> [some |-> TRUE, data |-> WithdrawOp_get_withdrawal_data(op)]
      [] op.kind = "FullExit" -> [some |-> TRUE, data |-> FullExitOp_get_withdrawal_data(op)]
      [] op.kind = "ForcedExit" ->
            [some |-> TRUE, data |-> ForcedExitOp_get_withdrawal_data(op)]
      [] OTHER -> [some |-> FALSE, data |-> <<>>]

\* FranklinOp::chunks.
chunks(op) ==
    CASE op.kind = "Noop" -> NoopOp_CHUNKS
      [] op.kind = "Deposit" -> DepositOp_CHUNKS
      [] op.kind = "TransferToNew" -> TransferToNewOp_CHUNKS
      [] op.kind = "Withdraw" -> WithdrawOp_CHUNKS
      [] op.kind = "Close" -> CloseOp_CHUNKS
      [] op.kind = "Transfer" -> TransferOp_CHUNKS
      [] op.kind = "FullExit" -> FullExitOp_CHUNKS
      [] op.kind = "ChangePubKeyOffchain" -> ChangePubKeyOp_CHUNKS
      [] op.kind = "ForcedExit" -> ForcedExitOp_CHUNKS

\* The bytes get_public_data pushes before its resize.
fields(op) ==
    CASE op.kind = "Noop" -> NoopOp_fields(op)
      [] op.kind = "Deposit" -> DepositOp_fields(op)
      [] op.kind = "TransferToNew" -> TransferToNewOp_fields(op)
      [] op.kind = "Withdraw" -> WithdrawOp_fields(op)
      [] op.kind = "Close" -> CloseOp_fields(op)
      [] op.kind = "Transfer" -> TransferOp_fields(op)
      [] op.kind = "FullExit" -> FullExitOp_fields(op)
      [] op.kind = "ChangePubKeyOffchain" -> ChangePubKeyOp_fields(op)
      [] op.kind = "ForcedExit" -> ForcedExitOp_fields(op)

\* FranklinOp::public_data.
public_data(op) ==
    CASE op.kind = "Noop" -> NoopOp_get_public_data(op)
      [] op.kind = "Deposit" -> DepositOp_get_public_data(op)
      [] op.kind = "TransferToNew" -> TransferToNewOp_get_public_data(op)
      [] op.kind = "Withdraw" -> WithdrawOp_get_public_data(op)
      [] op.kind = "Close" -> CloseOp_get_public_data(op)
      [] op.kind = "Transfer" -> TransferOp_get_public_data(op)
      [] op.kind = "FullExit" -> FullExitOp_get_public_data(op)
      [] op.kind = "ChangePubKeyOffchain" -> ChangePubKeyOp_get_public_data(op)
      [] op.kind = "ForcedExit" -> ForcedExitOp_get_public_data(op)

\* The operation codes FranklinOp knows.
OpCodes ==
    {NoopOp_OP_CODE, DepositOp_OP_CODE, TransferToNewOp_OP_CODE, WithdrawOp_OP_CODE,
     CloseOp_OP_CODE, TransferOp_OP_CODE, FullExitOp_OP_CODE, ChangePubKeyOp_OP_CODE,
     ForcedExitOp_OP_CODE}

\* The operation code of a kind.
OP_CODE(kind) ==
    CASE kind = "Noop" -> NoopOp_OP_CODE
      [] kind = "Deposit" -> DepositOp_OP_CODE
      [] kind = "TransferToNew" -> TransferToNewOp_OP_CODE
      [] kind = "Withdraw" -> WithdrawOp_OP_CODE
      [] kind = "Close" -> CloseOp_OP_CODE
      [] kind = "Transfer" -> TransferOp_OP_CODE
      [] kind = "FullExit" -> FullExitOp_OP_CODE
      [] kind = "ChangePubKeyOffchain" -> ChangePubKeyOp_OP_CODE
      [] kind = "ForcedExit" -> ForcedExitOp_OP_CODE

\* A dispatch that gives the code of a noop to the decoder of a close.
from_public_data_noop_as_close(bytes) ==
    IF bytes = <<>> THEN DecodeError("Empty pubdata")
    ELSE LET op_type == bytes[1]
         IN  CASE op_type = NoopOp_OP_CODE -> CloseOp_from_public_data(bytes)
               [] op_type = DepositOp_OP_CODE -> DepositOp_from_public_data(bytes)
               [] op_type = TransferToNewOp_OP_CODE -> TransferToNewOp_from_public_data(bytes)
               [] op_type = WithdrawOp_OP_CODE -> WithdrawOp_from_public_data(bytes)
               [] op_type = CloseOp_OP_CODE -> CloseOp_from_public_data(bytes)
               [] op_type = TransferOp_OP_CODE -> TransferOp_from_public_data(bytes)
               [] op_type = FullExitOp_OP_CODE -> FullExitOp_from_public_data(bytes)
               [] op_type = ChangePubKeyOp_OP_CODE -> ChangePubKeyOp_from_public_data(bytes)
               [] op_type = ForcedExitOp_OP_CODE -> ForcedExitOp_from_public_data(bytes)
               [] OTHER -> DecodeError("Wrong operation type")

\* FranklinOp::from_public_data: the first byte chooses the decoder.
from_public_data(bytes) ==
    IF bytes = <<>> THEN DecodeError("Empty pubdata")
    ELSE LET op_type == bytes[1]
         IN  CASE op_type = NoopOp_OP_CODE -> NoopOp_from_public_data(bytes)
               [] op_type = DepositOp_OP_CODE -> DepositOp_from_public_data(bytes)
               [] op_type = TransferToNewOp_OP_CODE -> TransferToNewOp_from_public_data(bytes)
               [] op_type = WithdrawOp_OP_CODE -> WithdrawOp_from_public_data(bytes)
               [] op_type = CloseOp_OP_CODE -> CloseOp_from_public_data(bytes)
               [] op_type = TransferOp_OP_CODE -> TransferOp_from_public_data(bytes)
               [] op_type = FullExitOp_OP_CODE -> FullExitOp_from_public_data(bytes)
               [] op_type = ChangePubKeyOp_OP_CODE -> ChangePubKeyOp_from_public_data(bytes)
               [] op_type = ForcedExitOp_OP_CODE -> ForcedExitOp_from_public_data(bytes)
               [] OTHER -> DecodeError("Wrong operation type")

\* A length table that gives a transfer the chunks of a transfer to new.
public_data_length_transfer_as_new(op_type) ==
    LET n == CASE op_type = NoopOp_OP_CODE -> NoopOp_CHUNKS
               [] op_type = DepositOp_OP_CODE -> DepositOp_CHUNKS
               [] op_type = TransferToNewOp_OP_CODE -> TransferToNewOp_CHUNKS
               [] op_type = WithdrawOp_OP_CODE -> WithdrawOp_CHUNKS
               [] op_type = CloseOp_OP_CODE -> CloseOp_CHUNKS
               [] op_type = TransferOp_OP_CODE -> TransferToNewOp_CHUNKS
               [] op_type = FullExitOp_OP_CODE -> FullExitOp_CHUNKS
               [] op_type = ChangePubKeyOp_OP_CODE -> ChangePubKeyOp_CHUNKS
               [] op_type = ForcedExitOp_OP_CODE -> ForcedExitOp_CHUNKS
               [] OTHER -> -1
    IN  IF n < 0 THEN [ok |-> FALSE, value |-> 0] ELSE [ok |-> TRUE, value |-> n * CHUNK_BYTES]

\* FranklinOp::public_data_length.
public_data_length(op_type) ==
    LET n == CASE op_type = NoopOp_OP_CODE -> NoopOp_CHUNKS
               [] op_type = DepositOp_OP_CODE -> DepositOp_CHUNKS
               [] op_type = TransferToNewOp_OP_CODE -> TransferToNewOp_CHUNKS
               [] op_type = WithdrawOp_OP_CODE -> WithdrawOp_CHUNKS
               [] op_type = CloseOp_OP_CODE -> CloseOp_CHUNKS
               [] op_type = TransferOp_OP_CODE -> TransferOp_CHUNKS
               [] op_type = FullExitOp_OP_CODE -> FullExitOp_CHUNKS
               [] op_type = ChangePubKeyOp_OP_CODE -> ChangePubKeyOp_CHUNKS
               [] op_type = ForcedExitOp_OP_CODE -> ForcedExitOp_CHUNKS
               [] OTHER -> -1
    IN  IF n < 0 THEN [ok |-> FALSE, value |-> 0] ELSE [ok |-> TRUE, value |-> n * CHUNK_BYTES]

\* The result of a failed conversion.
WrongType(reason) == [ok |-> FALSE, error |-> reason]

\* A conversion that has no arm for TransferToNew.
try_get_tx_without_transfer_to_new(op) ==
    CASE op.kind = "Transfer" -> [ok |-> TRUE, tx |-> [kind |-> "Transfer", tx |-> op.tx]]
      [] op.kind = "Withdraw" -> [ok |-> TRUE, tx |-> [kind |-> "Withdraw", tx |-> op.tx]]
      [] op.kind = "Close" -> [ok |-> TRUE, tx |-> [kind |-> "Close", tx |-> op.tx]]
      [] op.kind = "ChangePubKeyOffchain" ->
            [ok |-> TRUE, tx |-> [kind |-> "ChangePubKey", tx |-> op.tx]]
      [] op.kind = "ForcedExit" -> [ok |-> TRUE, tx |-> [kind |-> "ForcedExit", tx |-> op.tx]]
      [] OTHER -> WrongType("Wrong tx type")

\* FranklinOp::try_get_tx: the transaction of an operation that has one.
try_get_tx(op) ==
    CASE op.kind = "Transfer" -> [ok |-> TRUE, tx |-> [kind |-> "Transfer", tx |-> op.tx]]
      [] op.kind = "TransferToNew" ->
            [ok |-> TRUE, tx |-> [kind |-> "Transfer", tx |-> op.tx]]
      [] op.kind = "Withdraw" -> [ok |-> TRUE, tx |-> [kind |-> "Withdraw", tx |-> op.tx]]
      [] op.kind = "Close" -> [ok |-> TRUE, tx |-> [kind |-> "Close", tx |-> op.tx]]
      [] op.kind = "ChangePubKeyOffchain" ->
            [ok |-> TRUE, tx |-> [kind |-> "ChangePubKey", tx |-> op.tx]]
      [] op.kind = "ForcedExit" -> [ok |-> TRUE, tx |-> [kind |-> "ForcedExit", tx |-> op.tx]]
      [] OTHER -> WrongType("Wrong tx type")

\* FranklinOp::try_get_priority_op: the priority operation of a deposit or a
\* full exit.
try_get_priority_op(op) ==
    CASE op.kind = "Deposit" ->
            [ok |-> TRUE, priority_op |-> [kind |-> "Deposit", op |-> op.priority_op]]
      [] op.kind = "FullExit" ->
            [ok |-> TRUE, priority_op |-> [kind |-> "FullExit", op |-> op.priority_op]]
      [] OTHER -> WrongType("Wrong operation type")

(***************************************************************************)
(* The operations the codec is given.                                      *)
(***************************************************************************)
OpAccountIds == {0, 5}
OpAmounts == {0, 100}
OpFees == {3, 2050}
OpAddresses == {Address(17)}
OptionalAmounts == {[some |-> FALSE, value |-> 0], [some |-> TRUE, value |-> 100]}

Kinds ==
    {"Noop", "Deposit", "TransferToNew", "Withdraw", "Close", "Transfer", "FullExit",
     "ChangePubKeyOffchain", "ForcedExit"}

OpsOf(kind) ==
    CASE kind = "Noop" -> {[kind |-> "Noop"]}
      [] kind = "Deposit" ->
            {[kind |-> "Deposit",
              priority_op |-> [from |-> Address(34), token |-> 1, amount |-> m, to |-> t],
              account_id |-> a] : a \in OpAccountIds, m \in OpAmounts, t \in OpAddresses}
      [] kind = "TransferToNew" ->
            {[kind |-> "TransferToNew",
              tx |-> [Transfer_new(a, Address(34), t, 1, m, f, 7) EXCEPT !.signature = "signed"],
              from |-> a, to |-> 6] :
                a \in OpAccountIds, m \in OpAmounts, f \in OpFees, t \in OpAddresses}
      [] kind = "Transfer" ->
            {[kind |-> "Transfer",
              tx |-> [Transfer_new(a, Address(34), t, 1, m, f, 7) EXCEPT !.signature = "signed"],
              from |-> a, to |-> 6] :
                a \in OpAccountIds, m \in OpAmounts, f \in OpFees, t \in OpAddresses}
      [] kind = "Withdraw" ->
            {[kind |-> "Withdraw",
              tx |-> [account_id |-> a, from |-> Address(34), to |-> t, token |-> 1,
                      amount |-> m, fee |-> f, nonce |-> 7, signature |-> "signed"],
              account_id |-> a] :
                a \in OpAccountIds, m \in OpAmounts, f \in OpFees, t \in OpAddresses}
      [] kind = "Close" ->
            {[kind |-> "Close",
              tx |-> [account |-> Address(34), nonce |-> 7, signature |-> "signed"],
              account_id |-> a] : a \in OpAccountIds}
      [] kind = "FullExit" ->
            {[kind |-> "FullExit",
              priority_op |-> [account_id |-> a, eth_address |-> t, token |-> 1],
              withdraw_amount |-> w] :
                a \in OpAccountIds, w \in OptionalAmounts, t \in OpAddresses}
      [] kind = "ChangePubKeyOffchain" ->
            {[kind |-> "ChangePubKeyOffchain",
              tx |-> [account_id |-> a, account |-> t, new_pk_hash |-> Address(34),
                      fee_token |-> 1, fee |-> f, nonce |-> 7,
                      signature |-> "signed", eth_signature |-> "signed"],
              account_id |-> a] : a \in OpAccountIds, f \in OpFees, t \in OpAddresses}
      [] kind = "ForcedExit" ->
            {[kind |-> "ForcedExit",
              tx |-> [initiator_account_id |-> a, target |-> t, token |-> 1,
                      fee |-> f, nonce |-> 7, signature |-> "signed"],
              target_account_id |-> 6,
              withdraw_amount |-> w] :
                a \in OpAccountIds, f \in OpFees, w \in OptionalAmounts, t \in OpAddresses}

\* An operation code no variant has.
UnknownOpCode == 9

\* The lengths a decoder is tried on: around the end of the fields and around
\* the length of the kind, one chunk more included.
DecodeLengths(op) ==
    LET n == chunks(op) * CHUNK_BYTES
        e == Len(fields(op))
    IN  {l \in {0, 1, e - 1, e, e + 1, n - 1, n, n + 1, n + CHUNK_BYTES} : l >= 0}

\* The first bytes a payload is given in place of its own: the codes of the
\* two kinds of one chunk, the first value after the codes and the last value
\* of a byte.
FirstBytes == {NoopOp_OP_CODE, CloseOp_OP_CODE, UnknownOpCode, 255}

\* The byte sequences a decoder is given: the public data of an operation, cut
\* or extended to a length; at its full length also with every other first
\* byte, and with a last byte that is not zero.
DecodeInputs(op) ==
    LET cut == {resize(public_data(op), l) : l \in DecodeLengths(op)}
        full == {c \in cut : Len(c) = chunks(op) * CHUNK_BYTES}
    IN  cut \cup {[b EXCEPT ![1] = c] : b \in full, c \in FirstBytes}
            \cup {[b EXCEPT ![Len(b)] = 1] : b \in full}

\* The codec is a set of pure functions: each behaviour applies one of them
\* once, to one input.

\* FranklinOp::public_data on an operation.
PublicData ==
    /\ codec.op = "none"
    /\ \E kind \in Kinds : \E op \in OpsOf(kind) :
        /\ codec' = [op |-> "public_data", input |-> op, fields |-> fields(op),
                     bytes |-> public_data(op)]
        /\ UNCHANGED <<accounts_tree, block_number, last_call, calls, worker, received,
                       published, startup, rx_for_blocks, tx_for_blocks>>

\* FranklinOp::from_public_data on a byte sequence.
FromPublicData ==
    /\ codec.op = "none"
    /\ \E kind \in Kinds : \E op \in OpsOf(kind) : \E bytes \in DecodeInputs(op) :
        /\ codec' = [op |-> "from_public_data", bytes |-> bytes,
                     result |-> from_public_data(bytes)]
        /\ UNCHANGED <<accounts_tree, block_number, last_call, calls, worker, received,
                       published, startup, rx_for_blocks, tx_for_blocks>>

\* FranklinOp::from_public_data on the public data of an operation.
RoundTrip ==
    /\ codec.op = "none"
    /\ \E kind \in Kinds : \E op \in OpsOf(kind) :
        /\ codec' = [op |-> "round_trip", input |-> op,
                     result |-> from_public_data(public_data(op))]
        /\ UNCHANGED <<accounts_tree, block_number, last_call, calls, worker, received,
                       published, startup, rx_for_blocks, tx_for_blocks>>

\* The values of a byte.
Bytes == 0 .. 255

\* FranklinOp::public_data_length on an operation code.
PublicDataLength ==
    /\ codec.op = "none"
    /\ \E op_type \in Bytes :
        /\ codec' = [op |-> "public_data_length", op_type |-> op_type,
                     result |-> public_data_length(op_type)]
        /\ UNCHANGED <<accounts_tree, block_number, last_call, calls, worker, received,
                       published, startup, rx_for_blocks, tx_for_blocks>>

\* NoopOp::from_public_data on a byte sequence.
NoopFromPublicData ==
    /\ codec.op = "none"
    /\ \E kind \in Kinds : \E op \in OpsOf(kind) : \E bytes \in DecodeInputs(op) :
        /\ codec' = [op |-> "NoopOp::from_public_data", bytes |-> bytes,
                     result |-> NoopOp_from_public_data(bytes)]
        /\ UNCHANGED <<accounts_tree, block_number, last_call, calls, worker, received,
                       published, startup, rx_for_blocks, tx_for_blocks>>

\* FranklinOp::withdrawal_data on an operation, next to its public data.
WithdrawalData ==
    /\ codec.op = "none"
    /\ \E kind \in Kinds : \E op \in OpsOf(kind) :
        /\ codec' = [op |-> "withdrawal_data", input |-> op,
                     result |-> withdrawal_data(op), bytes |-> public_data(op)]
        /\ UNCHANGED <<accounts_tree, block_number, last_call, calls, worker, received,
                       published, startup, rx_for_blocks, tx_for_blocks>>

\* FranklinOp::try_get_tx and FranklinOp::try_get_priority_op on an operation.
TryGet ==
    /\ codec.op = "none"
    /\ \E kind \in Kinds : \E op \in OpsOf(kind) :
        /\ codec' = [op |-> "try_get", input |-> op, tx |-> try_get_tx(op),
                     priority_op |-> try_get_priority_op(op)]
        /\ UNCHANGED <<accounts_tree, block_number, last_call, calls, worker, received,
                       published, startup, rx_for_blocks, tx_for_blocks>>

CodecNext ==
    \/ PublicData
    \/ FromPublicData
    \/ RoundTrip
    \/ PublicDataLength
    \/ NoopFromPublicData
    \/ WithdrawalData
    \/ TryGet

CodecSpec == Init /\ [][CodecNext]_vars

(***************************************************************************)
(* Properties of the engine and of the worker.                             *)
(***************************************************************************)
\* A call of apply_and_prove has been made; last_call describes it.
Called == last_call.block.kind # "none"

CallFailed == Called /\ last_call.result.status # "Ok"

CallSucceeded == Called /\ last_call.result.status = "Ok"

\* C1: whenever apply_and_prove returns an error, the tree is as it was when the
\* call started (stated on the roots: no mutation of the batch is left visible).
C1_ErrorLeavesTreeUnchanged ==
    CallFailed => root_hash(accounts_tree) = root_hash(last_call.pre_tree)

\* C2: whenever apply_and_prove returns an error, block_number has the value it
\* had before the call.
C2_ErrorLeavesCursorUnchanged ==
    CallFailed => block_number = last_call.pre_block_number

\* C3: a call with block.block_number different from the engine's block_number
\* returns an error and leaves the tree and block_number unchanged.
C3_SequenceGuard ==
    (Called /\ last_call.block.block_number # last_call.pre_block_number)
        => /\ last_call.result.status # "Ok"
           /\ accounts_tree = last_call.pre_tree
           /\ block_number = last_call.pre_block_number

\* C3's case: an exit block of the expected size, numbered after the cursor, was
\* refused on an engine that had already taken a call.
C3_Witness ==
    /\ calls = 2
    /\ last_call.block.kind = "Exit"
    /\ Len(last_call.block.transactions) = DEPOSIT_BATCH_SIZE
    /\ last_call.block.block_number = last_call.pre_block_number + 1
    /\ last_call.result.status = "block_number != self.block_number"

\* C4: a successful call leaves block_number = B.block_number + 1, one more than
\* before it; no call ever decreases block_number.
C4_Monotonic ==
    [][/\ block_number' >= block_number
       /\ (calls' = calls + 1 /\ last_call'.result.status = "Ok")
            => /\ block_number' = last_call'.block.block_number + 1
               /\ block_number' = block_number + 1]_vars

\* C4's case: two calls succeeded one after the other.
C4_Witness ==
    /\ calls = 2
    /\ CallSucceeded
    /\ last_call.pre_block_number = InitialCursor + 1
    /\ block_number = InitialCursor + 2

\* C5: the block_number values carried by the published NewProof messages are
\* strictly ascending.
C5_PublishedAscending ==
    \A i, j \in 1 .. Len(published) :
        i < j => published[i].block_number < published[j].block_number

\* C6: the blocks of the published proofs are numbered consecutively from the
\* initial cursor; every request taken so far has its proof published, except
\* the one whose failure ended the worker, and nothing is published after it.
C6_NoSkippedBlock ==
    /\ \A i \in 1 .. Len(published) :
            published[i].block.block_number = InitialCursor + i - 1
    /\ Len(published) = IF worker = "panicked" THEN Len(received) - 1 ELSE Len(received)
    /\ \A i \in 1 .. Len(published) : published[i].block = received[i].block

\* C6's case: the worker published one proof and then failed on the next request.
C6_Witness ==
    /\ worker = "panicked"
    /\ Len(received) = 2
    /\ Len(published) = 1
    /\ last_call.block = received[2].block
    /\ last_call.result.status # "Ok"

\* The input of the first hash round: the block number and, for a transfer
\* block, the total fees.
FirstRound(kind, n, total_fees) == IF kind = "Transfer" THEN <<n, total_fees>> ELSE <<n>>

\* C7: a call succeeds only if the root after the batch equals the declared
\* root; the proof's public inputs are the root at the start of the call, the
\* root after the batch, and the commitment, in this order.
C7_DeclaredRootAndInputs ==
    CallSucceeded =>
        LET c == last_call
            after == TreeAfter(c.pre_tree, c.block.kind, c.block.transactions)
        IN  /\ accounts_tree = after
            /\ root_hash(after) = c.block.new_root_hash
            /\ Len(c.result.proof.inputs) = 3
            /\ c.result.proof.inputs[1] = root_hash(c.pre_tree)
            /\ c.result.proof.inputs[2] = c.block.new_root_hash
            /\ c.result.proof.inputs[3] =
                 public_data_commitment(
                     FirstRound(c.block.kind, c.block.block_number, c.result.proof.total_fees),
                     c.result.proof.public_data)

\* C7's case: a transfer block was proven.
C7_Witness ==
    /\ CallSucceeded
    /\ last_call.block.kind = "Transfer"
    /\ root_hash(last_call.pre_tree) # last_call.block.new_root_hash

\* The tree as it stood before transaction i of the last call's batch.
TreeBefore(i) ==
    TreeAfter(last_call.pre_tree, last_call.block.kind,
              SubSeq(last_call.block.transactions, 1, i - 1))

\* A path and a leaf snapshot are those of account id in the tree.
SoundWitness(path, leaf, id, tree) ==
    /\ leaf = LeafScalars(tree[id])
    /\ path = merkle_path(tree, id)
    /\ verify_merkle(path, leaf, id) = root_hash(tree)

\* C8: every witness of a batch holds the leaf snapshots and the Merkle paths
\* of the tree as it stood before that transaction's own inserts, and each
\* path with its snapshot recomputes the root of that tree.
C8_WitnessSoundness ==
    Called =>
        \A i \in 1 .. Len(last_call.result.witnesses) :
            LET w  == last_call.result.witnesses[i]
                tx == last_call.block.transactions[i]
            IN  CASE last_call.block.kind = "Transfer" ->
                        /\ SoundWitness(w.auth_path_from, w.leaf_from, tx.from, TreeBefore(i))
                        /\ SoundWitness(w.auth_path_to, w.leaf_to, tx.to, TreeBefore(i))
                  [] last_call.block.kind = "Deposit" ->
                        SoundWitness(w.auth_path, w.leaf, tx.into, TreeBefore(i))
                  [] last_call.block.kind = "Exit" ->
                        SoundWitness(w.auth_path, w.leaf, tx.account, TreeBefore(i))

\* C8's case: the second deposit of a batch went into the account of the first,
\* so its snapshot is the leaf the first deposit had just inserted.
C8_Witness ==
    /\ Called
    /\ last_call.block.kind = "Deposit"
    /\ Len(last_call.result.witnesses) = 2
    /\ last_call.block.transactions[1].into = last_call.block.transactions[2].into
    /\ last_call.result.witnesses[2].leaf # last_call.result.witnesses[1].leaf

\* C9: public_data() has exactly chunks() * CHUNK_BYTES bytes, the first of them
\* the operation code of the variant; the bytes pushed for the fields are all
\* there, none cut by the resize, and every byte after them is zero.
C9_EncodingSizeAndTag ==
    codec.op = "public_data" =>
        LET n == chunks(codec.input) * CHUNK_BYTES
            pushed == codec.fields
        IN  /\ Len(codec.bytes) = n
            /\ codec.bytes[1] = OP_CODE(codec.input.kind)
            /\ Len(pushed) <= n
            /\ SubSeq(codec.bytes, 1, Len(pushed)) = pushed
            /\ \A i \in (Len(pushed) + 1) .. n : codec.bytes[i] = 0

\* C9's case: a transfer was encoded, whose fields fill its two chunks to the
\* last byte, the packed fee ending the data.
C9_Witness ==
    /\ codec.op = "public_data"
    /\ codec.input.kind = "Transfer"
    /\ Len(codec.fields) = TransferOp_CHUNKS * CHUNK_BYTES
    /\ codec.bytes[Len(codec.bytes)] # 0

\* C10: from_public_data returns an error for every input whose length is not
\* CHUNKS * CHUNK_BYTES of the kind its operation code names.
C10_DecodeRejectsWrongLength ==
    (/\ codec.op = "from_public_data"
     /\ codec.bytes # <<>>
     /\ codec.bytes[1] \in OpCodes
     /\ Len(codec.bytes) # public_data_length(codec.bytes[1]).value)
        => ~codec.result.ok

\* The fields the public data of an operation carries, the others at the
\* defaults a decoder gives them.
Carried(o) ==
    CASE o.kind = "Noop" -> o
      [] o.kind = "Deposit" -> [o EXCEPT !.priority_op.from = AddressZero]
      [] o.kind = "TransferToNew" ->
            [o EXCEPT !.tx.from = AddressZero, !.tx.nonce = 0, !.tx.signature = "default"]
      [] o.kind = "Transfer" ->
            [o EXCEPT !.tx.from = AddressZero, !.tx.to = AddressZero, !.tx.nonce = 0,
                      !.tx.signature = "default"]
      [] o.kind = "Withdraw" ->
            [o EXCEPT !.tx.from = AddressZero, !.tx.nonce = 0, !.tx.signature = "default"]
      [] o.kind = "Close" ->
            [o EXCEPT !.tx.account = AddressZero, !.tx.nonce = 0, !.tx.signature = "default"]
      [] o.kind = "FullExit" -> o
      [] o.kind = "ChangePubKeyOffchain" ->
            [o EXCEPT !.tx.signature = "none", !.tx.eth_signature = "none"]
      [] o.kind = "ForcedExit" -> [o EXCEPT !.tx.nonce = 0, !.tx.signature = "default"]

\* C11: decoding the public data of a valid operation succeeds and gives the
\* operation back on every field the public data carries, withdraw_amount of
\* FullExitOp and ForcedExitOp included, with defaults in the other fields.
C11_RoundTrip ==
    codec.op = "round_trip" =>
        /\ codec.result.ok
        /\ codec.result.op = Carried(codec.input)

\* C12: FranklinOp::from_public_data fails on the empty input and on every
\* first byte that is no operation code; when it succeeds, the variant it
\* returns is the one whose OP_CODE is the first byte.
C12_Dispatch ==
    codec.op = "from_public_data" =>
        /\ codec.bytes = <<>> => ~codec.result.ok
        /\ (codec.bytes # <<>> /\ codec.bytes[1] \notin 0 .. 8) => ~codec.result.ok
        /\ codec.result.ok => OP_CODE(codec.result.op.kind) = codec.bytes[1]

\* C12's case: a payload of six chunks carrying the code of a full exit was
\* decoded, and it was decoded as a full exit.
C12_Witness ==
    /\ codec.op = "from_public_data"
    /\ codec.result.ok
    /\ codec.bytes[1] = FullExitOp_OP_CODE
    /\ codec.result.op.kind = "FullExit"

\* C13: public_data_length of the first byte of an operation's public data
\* succeeds and equals chunks() * CHUNK_BYTES and the length of the public
\* data; public_data_length fails for every code outside 0x00..0x08.
C13_SizingAgreement ==
    /\ codec.op = "public_data" =>
            LET l == public_data_length(codec.bytes[1])
            IN  /\ l.ok
                /\ l.value = chunks(codec.input) * CHUNK_BYTES
                /\ l.value = Len(codec.bytes)
    /\ codec.op = "public_data_length" =>
            /\ codec.op_type \notin 0 .. 8 => ~codec.result.ok
            /\ codec.op_type \in 0 .. 8 => codec.result.ok

\* C13's case: a transfer, the one kind of two chunks, was encoded.
C13_Witness ==
    /\ codec.op = "public_data"
    /\ codec.input.kind = "Transfer"
    /\ codec.bytes[1] = TransferOp_OP_CODE
    /\ Len(codec.bytes) = 2 * CHUNK_BYTES

\* C14: of the payloads whose first byte is 0x00, NoopOp::from_public_data and
\* FranklinOp::from_public_data accept the chunk of CHUNK_BYTES zero bytes and
\* no other: another length or a byte that is not zero is an error.
C14_NoopAcceptsOnlyZeroChunk ==
    (/\ codec.op \in {"from_public_data", "NoopOp::from_public_data"}
     /\ codec.bytes # <<>>
     /\ codec.bytes[1] = NoopOp_OP_CODE)
        => (codec.result.ok <=> codec.bytes = [i \in 1 .. CHUNK_BYTES |-> 0])

\* C14's case: a chunk that starts with 0x00 and ends with a byte that is not
\* zero was given to FranklinOp::from_public_data and rejected.
C14_Witness ==
    /\ codec.op = "from_public_data"
    /\ Len(codec.bytes) = CHUNK_BYTES
    /\ codec.bytes[1] = NoopOp_OP_CODE
    /\ codec.bytes[CHUNK_BYTES] # 0
    /\ ~codec.result.ok

\* Where the public data of a kind with withdrawal data holds the recipient,
\* the token and the amount (offsets from 0).
WithdrawalOffsets(kind) ==
    CASE kind = "Withdraw" -> [recipient |-> 25, token |-> 5, amount |-> 7]
      [] kind = "ForcedExit" -> [recipient |-> 29, token |-> 9, amount |-> 11]
      [] kind = "FullExit" -> [recipient |-> 5, token |-> 25, amount |-> 27]

\* C15: withdrawal_data() is present exactly for Withdraw, ForcedExit and
\* FullExit; it is a flag byte (1 for Withdraw and ForcedExit, 0 for FullExit),
\* the recipient in 20 bytes, the token in 2 and the amount in 16, equal to the
\* recipient, token and amount in the public data of the same operation.
C15_WithdrawalData ==
    codec.op = "withdrawal_data" =>
        /\ codec.result.some <=> codec.input.kind \in {"Withdraw", "ForcedExit", "FullExit"}
        /\ codec.result.some =>
            LET d == codec.result.data
                at == WithdrawalOffsets(codec.input.kind)
            IN  /\ Len(d) = 1 + 20 + 2 + 16
                /\ d[1] = IF codec.input.kind = "FullExit" THEN 0 ELSE 1
                /\ SubSeq(d, 2, 21) = Slice(codec.bytes, at.recipient, at.recipient + 20)
                /\ SubSeq(d, 22, 23) = Slice(codec.bytes, at.token, at.token + 2)
                /\ SubSeq(d, 24, 39) = Slice(codec.bytes, at.amount, at.amount + 16)
                /\ SubSeq(d, 2, 21) = Address(17)
                /\ from_be_bytes(SubSeq(d, 22, 23)) = 1
                /\ from_be_bytes(SubSeq(d, 24, 39)) \in {0, 100}

\* C15's case: the withdrawal data of a full exit that withdrew 100.
C15_Witness ==
    /\ codec.op = "withdrawal_data"
    /\ codec.input.kind = "FullExit"
    /\ codec.input.withdraw_amount = [some |-> TRUE, value |-> 100]
    /\ codec.result.some
    /\ codec.result.data[39] = 100

\* The batch size a handler of a transfer or deposit block requires.
RequiredSize(kind) == IF kind = "Transfer" THEN TRANSFER_BATCH_SIZE ELSE DEPOSIT_BATCH_SIZE

HoldsExactly(tree, accounts) ==
    \A s \in Slots :
        IF \E i \in 1 .. Len(accounts) : accounts[i].id = s
        THEN \E i \in 1 .. Len(accounts) : accounts[i].id = s /\ tree[s] = accounts[i].account
        ELSE tree[s] = NoLeaf

\* What create needs for an engine: the connection, the three keys, and the
\* root of the rebuilt tree equal to the root the persisted state reports.
StartupConditions ==
    /\ startup.connection_ok
    /\ startup.keys.transfer /\ startup.keys.deposit /\ startup.keys.exit
    /\ root_hash(extend_accounts(EmptyTree, startup.load.accounts, 1)) = startup.supplied_root

\* C17: create returns an engine only if the connection was obtained, the three
\* keys were read and the rebuilt root equals the persisted root, and returns an
\* error otherwise; the engine it returns has block_number = last verified
\* block + 1 and a tree holding exactly the persisted accounts.
C17_Startup ==
    startup.status # "none" =>
        /\ startup.status = "Ok" =>
            /\ StartupConditions
            /\ block_number = startup.load.last_block + 1
            /\ HoldsExactly(accounts_tree, startup.load.accounts)
        /\ startup.status # "Ok" => startup.status = "Err"

\* The tree as it stood after transaction i of the last call's batch: the tree
\* the call left, when i was the last transaction the loop applied.
TreeAfterApplied(i) ==
    IF i = Len(last_call.result.witnesses) THEN accounts_tree ELSE TreeBefore(i + 1)

\* The unpacked value of a float encoding, as a field element.
Unpacked(encoding) == FrFromU128(parse_float_to_u128(encoding).value)

\* The sender's leaf after the transaction: debited amount + fee, nonce + 1.
SenderDebited(before, after, tx) ==
    /\ after[tx.from].balance =
          FrSub(FrSub(before[tx.from].balance, Unpacked(tx.amount)), Unpacked(tx.fee))
    /\ after[tx.from].nonce = FrAdd(before[tx.from].nonce, 1)

\* The recipient's leaf after the transaction: credited amount, nonce and key kept.
RecipientCredited(before, after, tx) ==
    /\ after[tx.to].balance = FrAdd(before[tx.to].balance, Unpacked(tx.amount))
    /\ after[tx.to].nonce = before[tx.to].nonce
    /\ after[tx.to].pub_x = before[tx.to].pub_x
    /\ after[tx.to].pub_y = before[tx.to].pub_y

\* C19: every transaction a transfer batch applied left the sender's leaf with
\* balance = previous balance - amount - fee and nonce = previous nonce + 1 and,
\* for a recipient other than 0, the recipient's leaf with balance = previous
\* balance + amount and its nonce and public key unchanged.
C19_TransferMutation ==
    (Called /\ last_call.block.kind = "Transfer") =>
        \A i \in 1 .. Len(last_call.result.witnesses) :
            LET tx == last_call.block.transactions[i]
            IN  /\ SenderDebited(TreeBefore(i), TreeAfterApplied(i), tx)
                /\ tx.to # 0 => RecipientCredited(TreeBefore(i), TreeAfterApplied(i), tx)

\* C20: a transfer to recipient 0 leaves the balance, nonce and public key of
\* leaf 0 unchanged, and the sender is debited amount + fee with its nonce
\* incremented.
C20_SentinelRecipient ==
    (Called /\ last_call.block.kind = "Transfer") =>
        \A i \in 1 .. Len(last_call.result.witnesses) :
            LET tx     == last_call.block.transactions[i]
                before == TreeBefore(i)
                after  == TreeAfterApplied(i)
            IN  tx.to = 0 =>
                    /\ after[0].balance = before[0].balance
                    /\ after[0].nonce = before[0].nonce
                    /\ after[0].pub_x = before[0].pub_x
                    /\ after[0].pub_y = before[0].pub_y
                    /\ SenderDebited(before, after, tx)

\* The last call was a transfer block that passed the sequence guard and the
\* size check, so that its loop ran.
TransferReached ==
    /\ Called
    /\ last_call.block.kind = "Transfer"
    /\ ~incorrect_block(last_call.block, last_call.pre_block_number)
    /\ Len(last_call.block.transactions) = TRANSFER_BATCH_SIZE

\* C21: a transfer from a sender that has no leaf fails with InvalidSender; a
\* transfer to a recipient that has no leaf is applied against the default
\* all-zero leaf, and does not fail for that reason.  (Stated for every
\* transaction the loop reaches and converts to circuit form.)
C21_SenderMustExist ==
    TransferReached =>
        \A i \in 1 .. Len(last_call.block.transactions) :
            LET tx     == last_call.block.transactions[i]
                n      == Len(last_call.result.witnesses)
                before == TreeBefore(i)
            IN  (n >= i - 1 /\ tx.convertible) =>
                    /\ ~before[tx.from].some =>
                        /\ last_call.result.status = "InvalidSender"
                        /\ n = i - 1
                        /\ accounts_tree = before
                    /\ (before[tx.from].some /\ ~before[tx.to].some
                            /\ parse_float_to_u128(tx.amount).ok
                            /\ parse_float_to_u128(tx.fee).ok) =>
                        /\ n >= i
                        /\ last_call.result.witnesses[i].leaf_to = LeafScalars(AccountDefault)
                        /\ TreeAfterApplied(i)[tx.to].some

\* C21's two cases: a transfer from an absent sender was refused, and a transfer
\* of 3 to an absent recipient was applied and proven.
C21_Witness ==
    /\ TransferReached
    /\ ~last_call.pre_tree[last_call.block.transactions[1].from].some
    /\ last_call.result.status = "InvalidSender"

C21_WitnessRecipient ==
    /\ TransferReached
    /\ last_call.pre_tree[last_call.block.transactions[1].from].some
    /\ ~last_call.pre_tree[last_call.block.transactions[1].to].some
    /\ last_call.block.transactions[1].to # 0
    /\ Unpacked(last_call.block.transactions[1].amount) = 3
    /\ accounts_tree[last_call.block.transactions[1].to].balance = 3
    /\ CallSucceeded

\* C22: a deposit into an account with no leaf produces a leaf with balance =
\* amount, nonce 0 and the deposit's public key, with leaf_is_empty = true and
\* the default leaf as snapshot; a deposit into an account that has a leaf adds
\* the amount to its balance, leaves nonce and key unchanged and records
\* leaf_is_empty = false.
C22_DepositMutation ==
    (Called /\ last_call.block.kind = "Deposit") =>
        \A i \in 1 .. Len(last_call.result.witnesses) :
            LET tx     == last_call.block.transactions[i]
                w      == last_call.result.witnesses[i]
                before == TreeBefore(i)[tx.into]
                after  == TreeAfterApplied(i)[tx.into]
            IN  IF ~before.some
                THEN /\ after.some
                     /\ after.balance = tx.amount
                     /\ after.nonce = 0
                     /\ after.pub_x = tx.pub_x /\ after.pub_y = tx.pub_y
                     /\ w.leaf_is_empty
                     /\ w.leaf = LeafScalars(AccountDefault)
                ELSE /\ after.some
                     /\ after.balance = FrAdd(before.balance, tx.amount)
                     /\ after.nonce = before.nonce
                     /\ after.pub_x = before.pub_x /\ after.pub_y = before.pub_y
                     /\ ~w.leaf_is_empty

\* C22's case: a batch of two deposits of 2 into one account that had no leaf:
\* the first created the leaf with the deposit's key, the second added to it.
C22_Witness ==
    /\ Called
    /\ last_call.block.kind = "Deposit"
    /\ Len(last_call.result.witnesses) = 2
    /\ last_call.block.transactions[1].into = last_call.block.transactions[2].into
    /\ ~last_call.pre_tree[last_call.block.transactions[1].into].some
    /\ last_call.result.witnesses[1].leaf_is_empty
    /\ ~last_call.result.witnesses[2].leaf_is_empty
    /\ accounts_tree[last_call.block.transactions[1].into].balance = 4

\* C23: every deposit whose own public key is not a curve point makes
\* apply_and_prove_deposit fail, whether the target leaf is empty or occupied.
C23_DepositKeyMustBeValid ==
    (Called /\ last_call.block.kind = "Deposit") =>
        \A i \in 1 .. Len(last_call.block.transactions) :
            LET tx == last_call.block.transactions[i]
            IN  ~from_xy(tx.pub_x, tx.pub_y) =>
                    /\ CallFailed
                    /\ Len(last_call.result.witnesses) < i

\* The last call was an exit block that passed the sequence guard and the size
\* check, so that its loop ran.
ExitReached ==
    /\ Called
    /\ last_call.block.kind = "Exit"
    /\ ~incorrect_block(last_call.block, last_call.pre_block_number)
    /\ Len(last_call.block.transactions) = DEPOSIT_BATCH_SIZE

\* C24: an exit naming an account with no leaf fails; otherwise the account's
\* leaf is replaced by the default all-zero leaf, and the exit request's amount
\* and the witness's leaf snapshot are those of the account immediately before
\* that exit.
C24_ExitMutation ==
    ExitReached =>
        \A i \in 1 .. Len(last_call.block.transactions) :
            LET tx     == last_call.block.transactions[i]
                n      == Len(last_call.result.witnesses)
                before == TreeBefore(i)[tx.account]
            IN  /\ (n >= i - 1 /\ ~before.some) => (CallFailed /\ n = i - 1)
                /\ n >= i =>
                    /\ before.some
                    /\ TreeAfterApplied(i)[tx.account] = AccountDefault
                    /\ last_call.result.witnesses[i].request.from = tx.account
                    /\ last_call.result.witnesses[i].request.amount = before.balance
                    /\ last_call.result.witnesses[i].leaf = LeafScalars(before)

\* C24's case: an exit of an account with balance 5 was applied, and the exit
\* after it in the batch named an account with no leaf.
C24_Witness ==
    /\ ExitReached
    /\ Len(last_call.result.witnesses) = 1
    /\ last_call.result.witnesses[1].request.amount = 5
    /\ accounts_tree[last_call.block.transactions[1].account] = AccountDefault
    /\ ~last_call.pre_tree[last_call.block.transactions[2].account].some
    /\ last_call.result.status = "existing_leaf.is_none()"

\* The encodings of the first n exits of the last call's batch, each built from
\* the account id and the balance the tree held just before that exit.
RECURSIVE LookedUpExitData(_)
LookedUpExitData(n) ==
    IF n = 0
    THEN <<>>
    ELSE LET account == last_call.block.transactions[n].account
         IN  LookedUpExitData(n - 1)
                 \o exit_public_data([from |-> account,
                                      amount |-> TreeBefore(n)[account].balance])

\* C25: the public_data of an exit proof is the concatenation, in the order of
\* the block, of one encoding per exit built from the account id and the balance
\* looked up in the tree just before that exit, whatever amount the caller wrote
\* in the exit transaction.
C25_ExitPublicData ==
    (CallSucceeded /\ last_call.block.kind = "Exit") =>
        last_call.result.proof.public_data =
            LookedUpExitData(Len(last_call.block.transactions))

\* C25's case: an exit block was proven whose first exit found a balance that is
\* not the amount the caller supplied.
C25_Witness ==
    /\ CallSucceeded
    /\ last_call.block.kind = "Exit"
    /\ Len(last_call.result.proof.public_data) = DEPOSIT_BATCH_SIZE
    /\ last_call.result.proof.public_data[1].amount = 5
    /\ last_call.block.transactions[1].amount # 5

\* C26: apply_and_prove_exit rejects a block for its size exactly when its
\* transaction count differs from deposit_batch_size; exit_batch_size is not
\* consulted: with the two sizes different, a block of exit_batch_size exits is
\* rejected and a block of deposit_batch_size exits passes the size check.
C26_ExitBatchSizeGuard ==
    (Called /\ last_call.block.kind = "Exit"
        /\ ~incorrect_block(last_call.block, last_call.pre_block_number)) =>
        LET n        == Len(last_call.block.transactions)
            rejected == last_call.result.status = "num_txes != self.deposit_batch_size"
        IN  /\ rejected <=> n # DEPOSIT_BATCH_SIZE
            /\ rejected => (accounts_tree = last_call.pre_tree
                            /\ block_number = last_call.pre_block_number)
            /\ EXIT_BATCH_SIZE # DEPOSIT_BATCH_SIZE =>
                /\ n = EXIT_BATCH_SIZE => rejected
                /\ n = DEPOSIT_BATCH_SIZE => ~rejected

\* C26's case: an exit block of exit_batch_size transactions, a size other than
\* deposit_batch_size, naming an account that has a leaf, was rejected for its size.
C26_Witness ==
    /\ Called
    /\ last_call.block.kind = "Exit"
    /\ ~incorrect_block(last_call.block, last_call.pre_block_number)
    /\ Len(last_call.block.transactions) = EXIT_BATCH_SIZE
    /\ EXIT_BATCH_SIZE # DEPOSIT_BATCH_SIZE
    /\ \A i \in 1 .. EXIT_BATCH_SIZE :
          last_call.pre_tree[last_call.block.transactions[i].account].some
    /\ last_call.result.status = "num_txes != self.deposit_batch_size"

\* The sum, in the field, of the unpacked fees of the first n transactions.
RECURSIVE SumOfFees(_, _)
SumOfFees(txs, n) ==
    IF n = 0 THEN 0 ELSE FrAdd(SumOfFees(txs, n - 1), Unpacked(txs[n].fee))

\* C27: the total_fees of a successful transfer proof is the sum of the unpacked
\* fees of all transactions of the batch, whatever total_fees the block
\* declares; the total_fees of every deposit and exit proof is 0.
C27_FeeAccumulator ==
    CallSucceeded =>
        IF last_call.block.kind = "Transfer"
        THEN last_call.result.proof.total_fees =
                SumOfFees(last_call.block.transactions, Len(last_call.block.transactions))
        ELSE last_call.result.proof.total_fees = 0

\* C27's case: a proven transfer batch of two transactions with fees 1 and 2,
\* in a block that declared total fees of 0.
C27_Witness ==
    /\ CallSucceeded
    /\ last_call.block.kind = "Transfer"
    /\ Len(last_call.block.transactions) = 2
    /\ Unpacked(last_call.block.transactions[1].fee) = 1
    /\ Unpacked(last_call.block.transactions[2].fee) = 2
    /\ last_call.block.total_fees = 0
    /\ last_call.result.proof.total_fees = 3

\* C28: the first hash round takes 64 bytes for a transfer block, the 256-bit
\* big-endian block number followed by the 256-bit big-endian total fees, and
\* 32 bytes, the block number alone, for a deposit or exit block; the second
\* round takes the first digest followed by the public data; the commitment is
\* the second digest with the top 3 bits of its first byte cleared, so it is
\* below 2^253 (its first byte is below 2^5).
C28_CommitmentInputAndRange ==
    CallSucceeded =>
        LET proof      == last_call.result.proof
            commitment == proof.inputs[3]
            h2_input   == commitment.digest.sha256
            h1_input   == h2_input[1].sha256
        IN  /\ Len(h1_input) = IF last_call.block.kind = "Transfer" THEN 64 ELSE 32
            /\ \A i \in 1 .. Len(h1_input) : h1_input[i] \in 0 .. 255
            /\ from_be_bytes(SubSeq(h1_input, 1, 32)) = last_call.block.block_number
            /\ last_call.block.kind = "Transfer" =>
                  from_be_bytes(SubSeq(h1_input, 33, 64)) = proof.total_fees
            /\ h2_input[1] = Sha256(h1_input)
            /\ Tail(h2_input) = proof.public_data
            /\ commitment.first_byte = hash_result_first_byte(h1_input, proof.public_data) % 32
            /\ commitment.first_byte < 32

\* C28's case: a transfer block with a fee was proven, and the first byte of its
\* second digest had one of its top 3 bits set.
C28_Witness ==
    /\ CallSucceeded
    /\ last_call.block.kind = "Transfer"
    /\ last_call.result.proof.total_fees > 0
    /\ hash_result_first_byte(last_call.result.proof.inputs[3].digest.sha256[1].sha256,
                              last_call.result.proof.public_data) >= 32

\* Sixteen zero bytes: an amount of 0.
ZeroAmount == [i \in 1 .. 16 |-> 0]

\* C29: for FullExitOp and ForcedExitOp with withdraw_amount = None,
\* public_data() and withdrawal_data() carry a 16-byte amount of 0 and are
\* byte-for-byte those of the same operation with withdraw_amount = Some(0);
\* public_data() has 6 * CHUNK_BYTES bytes.
C29_FailedWithdrawalEncoding ==
    (codec.op = "withdrawal_data" /\ codec.input.kind \in {"FullExit", "ForcedExit"}
        /\ ~codec.input.withdraw_amount.some) =>
        LET withdrew_zero ==
                [codec.input EXCEPT !.withdraw_amount = [some |-> TRUE, value |-> 0]]
            at == WithdrawalOffsets(codec.input.kind)
        IN  /\ Len(codec.bytes) = 6 * CHUNK_BYTES
            /\ Slice(codec.bytes, at.amount, at.amount + 16) = ZeroAmount
            /\ codec.result.some
            /\ SubSeq(codec.result.data, 24, 39) = ZeroAmount
            /\ codec.bytes = public_data(withdrew_zero)
            /\ codec.result = withdrawal_data(withdrew_zero)

\* C29's case: a forced exit that withdrew nothing was encoded.
C29_Witness ==
    /\ codec.op = "withdrawal_data"
    /\ codec.input.kind = "ForcedExit"
    /\ ~codec.input.withdraw_amount.some
    /\ Len(codec.result.data) = 39
    /\ Len(codec.bytes) = 6 * CHUNK_BYTES

\* The requests sent to the worker so far.
Sent == received \o rx_for_blocks

\* Every published NewProof is that of the request taken at the same position,
\* and every request taken has one, but the one whose failure ended the worker.
OneProofPerRequest ==
    /\ \A i \in 1 .. Len(published) :
          published[i] = [block_number |-> received[i].block_number,
                          block |-> received[i].block]
    /\ Len(published) = IF worker = "panicked" THEN Len(received) - 1 ELSE Len(received)

\* A NewProof is sent in the iteration that took its request, after
\* apply_and_prove of its block has succeeded.
PublishedAfterSuccess ==
    published' # published =>
        /\ rx_for_blocks # <<>>
        /\ published' = Append(published, [block_number |-> Head(rx_for_blocks).block_number,
                                           block |-> Head(rx_for_blocks).block])
        /\ last_call'.block = Head(rx_for_blocks).block
        /\ last_call'.result.status = "Ok"

\* C30: for every request the worker processes without failure it publishes
\* exactly one NewProof carrying that request's block_number and block, in the
\* order the requests were received, and only after apply_and_prove of that
\* block has succeeded; with the worker's iteration weakly fair, every request
\* sent is eventually answered by its NewProof, unless the worker has failed.
C30_WorkerOutput ==
    /\ []OneProofPerRequest
    /\ [][PublishedAfterSuccess]_vars
    /\ \A k \in 1 .. MaxCalls :
          (Len(Sent) >= k) ~> (Len(published) >= k \/ worker = "panicked")

\* C30's case: two requests were sent and taken, and both proofs published, the
\* first request carrying a number other than its block's.
C30_Witness ==
    /\ Len(received) = 2
    /\ Len(published) = 2
    /\ rx_for_blocks = <<>>
    /\ received[1].block_number # received[1].block.block_number
    /\ published[1].block_number = received[1].block_number

\* The leaf the snapshots of a state diff leave in a slot: the last snapshot of
\* that account, or the leaf the tree held.
Overwritten(tree, accounts, s) ==
    LET at == {i \in 1 .. Len(accounts) : accounts[i].id = s}
    IN  IF at = {}
        THEN tree[s]
        ELSE accounts[CHOOSE i \in at : \A j \in at : j <= i].account

\* One iteration of run that got as far as apply_and_prove: the engine saw the
\* tree with the snapshots written over it and the cursor as it was, and a block
\* numbered after the cursor was refused by the sequence guard, which ended the
\* worker with nothing published.
FastForwardStep ==
    last_call' # last_call =>
        /\ \A s \in Slots :
              last_call'.pre_tree[s] = Overwritten(accounts_tree, last_call'.diff, s)
        /\ last_call'.pre_block_number = block_number
        /\ last_call'.block.block_number > block_number =>
              /\ last_call'.result.status \in
                    {"incorrect block", "block_number != self.block_number"}
              /\ block_number' = block_number
              /\ accounts_tree' = last_call'.pre_tree
              /\ published' = published
              /\ worker' = "panicked"

\* C31: fast-forward changes only the tree: before each apply_and_prove the
\* worker overwrites tree leaves with the account snapshots of the state diff and
\* leaves the cursor unchanged, so a request whose block is numbered after the
\* cursor is never proven: it fails the sequence guard and ends the worker.
C31_FastForwardOnlyTree == [][FastForwardStep]_vars

\* C31's case: a snapshot of account 2 was written over the tree, the block of
\* the request was numbered one after the cursor, and the worker ended.
C31_Witness ==
    /\ worker = "panicked"
    /\ Called
    /\ Len(last_call.diff) = 1
    /\ last_call.pre_tree[2].balance = 4
    /\ last_call.block.block_number = last_call.pre_block_number + 1
    /\ last_call.result.status = "incorrect block"
    /\ block_number = last_call.pre_block_number

\* The worker leaves the request it is processing only with apply_and_prove of
\* its block run to its end, and with its NewProof sent when that succeeded.
CurrentBlockFinished ==
    (worker = "proving" /\ worker' # "proving") =>
        /\ last_call' # last_call
        /\ last_call'.block = received[Len(received)].block
        /\ last_call'.result.status = "Ok" =>
              published' = Append(published, NewProof(received[Len(received)].block_number,
                                                      received[Len(received)].block))

\* C32: cancellation: when the input channel is closed the worker finishes the
\* request it is processing, publishing its proof if it succeeds, then leaves
\* its loop and terminates without failure; it never abandons a block in the
\* middle of apply_and_prove.
C32_Cancellation ==
    /\ [][CurrentBlockFinished]_vars
    /\ (tx_for_blocks = "dropped") ~> (worker = "exited")

\* C33: every NewProof(n, block, proof) published by the worker has n equal to
\* block.block_number: the number attached to a published proof is the number of
\* the block that was proven.
C33_ProofNumberIsBlockNumber ==
    \A i \in 1 .. Len(published) :
        published[i].block_number = published[i].block.block_number

\* The sum of the balances of the leaves in slots 0 .. s of a tree.
RECURSIVE SumOfBalances(_, _)
SumOfBalances(tree, s) ==
    IF s < 0 THEN 0 ELSE tree[s].balance + SumOfBalances(tree, s - 1)

TotalBalance(tree) == SumOfBalances(tree, Pow(2, BALANCE_TREE_DEPTH) - 1)

\* C34: no value is created by transfers: for every transaction a transfer
\* batch applied, whatever its sender and recipient, the sum of all leaf
\* balances after it is at most the sum before it, and is the sum before minus
\* the fee when the recipient is not 0.
C34_NoValueCreated ==
    (Called /\ last_call.block.kind = "Transfer") =>
        \A i \in 1 .. Len(last_call.result.witnesses) :
            LET tx     == last_call.block.transactions[i]
                before == TotalBalance(TreeBefore(i))
                after  == TotalBalance(TreeAfterApplied(i))
            IN  /\ after <= before
                /\ tx.to # 0 => after = before - Unpacked(tx.fee)

\* C35: balances never wrap: no transfer is applied whose amount + fee exceeds
\* the sender's balance, so no subtraction wraps around the field modulus.
C35_BalancesNeverWrap ==
    (Called /\ last_call.block.kind = "Transfer") =>
        \A i \in 1 .. Len(last_call.result.witnesses) :
            LET tx     == last_call.block.transactions[i]
                amount == parse_float_to_u128(tx.amount).value
                fee    == parse_float_to_u128(tx.fee).value
                before == TreeBefore(i)[tx.from].balance
            IN  amount + fee <= before

\* In every deposit witness the flag is true exactly when the snapshot is the
\* default leaf.
FlagMatchesSnapshot ==
    \A i \in 1 .. Len(last_call.result.witnesses) :
        LET w == last_call.result.witnesses[i]
        IN  w.leaf_is_empty <=> (w.leaf = LeafScalars(AccountDefault))

\* A deposit with a valid key into a leaf that an exit has reset to the default
\* is applied as a deposit into an empty leaf.
ExitedLeafTakenAsEmpty ==
    \A i \in 1 .. Len(last_call.block.transactions) :
        LET tx == last_call.block.transactions[i]
        IN  (/\ Len(last_call.result.witnesses) >= i - 1
             /\ tx.convertible
             /\ from_xy(tx.pub_x, tx.pub_y)
             /\ TreeBefore(i)[tx.into] = AccountDefault) =>
                /\ Len(last_call.result.witnesses) >= i
                /\ last_call.result.witnesses[i].leaf_is_empty
                /\ TreeAfterApplied(i)[tx.into].pub_x = tx.pub_x
                /\ TreeAfterApplied(i)[tx.into].pub_y = tx.pub_y

\* C36: in every deposit witness, after any sequence of earlier blocks,
\* leaf_is_empty is true exactly when the pre-mutation leaf snapshot is the
\* default all-zero leaf; in particular a deposit into an account that was
\* exited before is handled as a deposit into an empty leaf: flag true, public
\* key taken from the deposit.
C36_LeafIsEmptyFlag ==
    (Called /\ last_call.block.kind = "Deposit") =>
        /\ FlagMatchesSnapshot
        /\ ExitedLeafTakenAsEmpty

\* The accounts whose exit a call has applied.
ExitedBy(call) ==
    IF call.block.kind = "Exit"
    THEN {call.block.transactions[i].account : i \in 1 .. Len(call.result.witnesses)}
    ELSE {}

\* Within one exit batch: once an exit of an account is applied, a later exit
\* of the batch that names the same account is refused as an unknown account.
SecondExitRefused ==
    (Called /\ last_call.block.kind = "Exit") =>
        \A i, j \in 1 .. Len(last_call.block.transactions) :
            LET first  == last_call.block.transactions[i]
                second == last_call.block.transactions[j]
            IN  (/\ i < j
                 /\ Len(last_call.result.witnesses) >= j - 1
                 /\ second.convertible
                 /\ first.account = second.account) =>
                    /\ Len(last_call.result.witnesses) = j - 1
                    /\ last_call.result.status = "existing_leaf.is_none()"

\* From one call to the next: the call after an exit of an account, when it is
\* an exit that names the account first or a transfer with the account as its
\* first sender, is refused as an unknown account.
ExitedAccountUnknown ==
    (/\ calls' = calls + 1
     /\ last_call'.block.block_number = block_number
     /\ Len(last_call'.block.transactions) = RequiredSize(last_call'.block.kind)
     /\ last_call'.block.transactions[1].convertible) =>
        LET tx == last_call'.block.transactions[1]
        IN  /\ (last_call'.block.kind = "Exit" /\ tx.account \in ExitedBy(last_call)) =>
                  last_call'.result.status = "existing_leaf.is_none()"
            /\ (last_call'.block.kind = "Transfer" /\ tx.from \in ExitedBy(last_call)) =>
                  last_call'.result.status = "InvalidSender"

\* C37: an exited account no longer exists: after an exit of account a has been
\* applied, a later exit naming a, or a later transfer with sender a, fails as
\* an unknown account until a deposit into a has been applied.
C37_ExitedAccountIsGone == []SecondExitRefused /\ [][ExitedAccountUnknown]_vars

\* The last call got through its loop: the guards passed and every transaction
\* of the block was applied.
AllApplied ==
    /\ Called
    /\ last_call.block.block_number = last_call.pre_block_number
    /\ Len(last_call.block.transactions) = RequiredSize(last_call.block.kind)
    /\ Len(last_call.result.witnesses) = Len(last_call.block.transactions)

\* C38: a block that leaves the root unchanged is never proven: for every block
\* kind, if the root after applying all transactions equals the root before the
\* batch, apply_and_prove returns an error and block_number is not incremented,
\* even when the block's new_root_hash equals that root.
C38_UnchangedRootNotProven ==
    (/\ Called
     /\ root_hash(TreeAfter(last_call.pre_tree, last_call.block.kind,
                            last_call.block.transactions))
            = root_hash(last_call.pre_tree)) =>
        /\ last_call.result.status # "Ok"
        /\ block_number = last_call.pre_block_number
        /\ AllApplied => last_call.result.status = "initial_root == final_root"

\* C38's case: two deposits of 0 into an account that has a leaf were applied,
\* the block declared the root the tree had and kept, and the call failed.
C38_Witness ==
    /\ AllApplied
    /\ last_call.block.kind = "Deposit"
    /\ last_call.block.new_root_hash = root_hash(last_call.pre_tree)
    /\ root_hash(accounts_tree) = root_hash(last_call.pre_tree)
    /\ last_call.result.status = "initial_root == final_root"
    /\ block_number = last_call.pre_block_number

\* C39: canonical encoding: every byte string b that FranklinOp::from_public_data
\* accepts re-encodes to itself, public_data(from_public_data(b)) = b; so no
\* accepted payload has a non-zero byte in its padding region or a length other
\* than CHUNKS * CHUNK_BYTES of its kind.
C39_CanonicalEncoding ==
    (codec.op = "from_public_data" /\ codec.result.ok) =>
        /\ public_data(codec.result.op) = codec.bytes
        /\ Len(codec.bytes) = chunks(codec.result.op) * CHUNK_BYTES

\* The kinds that carry a transaction and the kinds that carry a priority
\* operation.
TxKinds == {"TransferToNew", "Withdraw", "Close", "Transfer", "ChangePubKeyOffchain", "ForcedExit"}

PriorityKinds == {"Deposit", "FullExit"}

\* C40: kind partition: try_get_tx succeeds exactly for TransferToNew, Withdraw,
\* Close, Transfer, ChangePubKey and ForcedExit, try_get_priority_op succeeds
\* exactly for Deposit and FullExit, and both fail for Noop; so at most one of
\* the two succeeds for any operation, and TransferToNew and Transfer both yield
\* a Transfer transaction (the operation's own tx).
C40_KindPartition ==
    codec.op = "try_get" =>
        /\ codec.tx.ok <=> codec.input.kind \in TxKinds
        /\ codec.priority_op.ok <=> codec.input.kind \in PriorityKinds
        /\ codec.input.kind = "Noop" => (~codec.tx.ok /\ ~codec.priority_op.ok)
        /\ ~(codec.tx.ok /\ codec.priority_op.ok)
        /\ codec.input.kind \in {"TransferToNew", "Transfer"} =>
              /\ codec.tx.ok
              /\ codec.tx.tx.kind = "Transfer"
              /\ codec.tx.tx.tx = codec.input.tx
        /\ codec.tx.ok => codec.tx.tx.tx = codec.input.tx
        /\ codec.priority_op.ok =>
              /\ codec.priority_op.priority_op.kind = codec.input.kind
              /\ codec.priority_op.priority_op.op = codec.input.priority_op

\* C40's case: the two conversions were applied to a TransferToNew operation
\* and gave a Transfer transaction and no priority operation.
C40_Witness ==
    /\ codec.op = "try_get"
    /\ codec.input.kind = "TransferToNew"
    /\ codec.tx.ok
    /\ codec.tx.tx.kind = "Transfer"
    /\ ~codec.priority_op.ok

====
